---- MODULE Spec2Model ----
(***************************************************************************)
(* A model of the lexparse package: the Lexer task (Lexer.Lex and the      *)
(* operations a State calls on the Lexer), the Parser (Parser.Parse and    *)
(* the operations a ParseFn calls on the Parser) and the driver LexParse   *)
(* that joins them through the unbuffered lexeme channel and a derived,    *)
(* cancellable context.                                                    *)
(*                                                                         *)
(* State and ParseFn are client code: the model lets a State choose freely *)
(* among ReadRune, Lexeme, Emit and returning, and lets the parse function *)
(* be one of the functions of the package's tests or a free client.        *)
(***************************************************************************)
EXTENDS Integers, Sequences, FiniteSets, TLC

\* Bounds of the model.
MaxInputLen == 2
MaxLexemes == 2
MaxRuns == 2
MaxNodes == 5

\* The runes of the input alphabet; "\n" is the only rune the Lexer treats
\* specially.
Runes == {"a", "\n"}

RECURSIVE SeqsUpTo(_, _)
SeqsUpTo(S, n) ==
    IF n = 0 THEN {<<>>}
    ELSE LET shorter == SeqsUpTo(S, n - 1)
         IN  shorter \cup {Append(s, x) : s \in {t \in shorter : Len(t) = n - 1}, x \in S}

Inputs == SeqsUpTo(Runes, MaxInputLen)

\* Go's nil for errors, functions and states.
Nil == "nil"

\* Error values.  Canceled is context.Canceled, EOF is io.EOF, wrappedEOF is
\* an error wrapping io.EOF (fmt.Errorf("...: %w", io.EOF)), errState and
\* errParse are the client errors of the package's tests.
Canceled == "Canceled"
EOF == "EOF"
WrappedEOF == "wrappedEOF"
ErrState == "errState"
ErrParse == "errParse"

\* errors.Is(err, io.EOF) with a mutant that compares with == instead.
IsEOF_Identity(err) == err = EOF
IsEOF(err) == err \in {EOF, WrappedEOF}

\* errors.Is(lErr, context.Canceled)
IsCanceled(err) == err = Canceled

\* LexemeType values of the tests.
unusedType == 0
wordType == 1

\* A nil *Lexeme.
NilLexeme == [Type |-> unusedType, Value |-> <<>>, Pos |-> -1, Line |-> -1, Column |-> -1]

\* A nil *Node is node id 0; the nodes allocated by a Parser are 1, 2, ...
NilNode == 0

\* The parse functions: parseWord and errParseFn of the tests, and anyFn, a
\* free client of Peek and Next.
ParseFns == {"parseWord", "errParseFn", "anyFn"}

VARIABLES
    \* the arguments of LexParse
    input, initFn,
    \* the caller's context
    callerCancelled, cancelledEarly,
    \* LexParse
    dpc, driverCancelled, pRoot, pErr, retNode, retErr,
    \* Lexer: the task's position, l.state, l.s.* and the two channels
    lpc, state, pos, line, column, startPos, startLine, startColumn, b, lexErr,
    lexemesClosed, doneClosed,
    \* the State client: the number of Run calls, the error the last Run
    \* returned and whether the task observed cancellation
    runs, lastRunErr, sawCancel,
    \* the lexeme channel: the lexeme of a blocked send, and the history of
    \* the lexemes handed over
    sending, delivered,
    \* Parser
    ppc, parseFn, plexeme, heap, root, node,
    \* the ParseFn client: the log of the results of Next, and the result of
    \* the last Peek with the number of Next calls that preceded it
    nextLog, lastPeek,
    \* a caller of Lexer.Emit from outside the lexing task
    epc,
    \* the last operation a client called directly on the Lexer or on the
    \* Parser: its name, its arguments, the state before it and its results
    call,
    \* l.s.Mutex: its holder, a caller of Pos/Line/Column/Err on another
    \* goroutine, and a caller of Lex on a Lexer that has finished
    mu, opc, xpc,
    \* a caller of the tree operations of the Parser: "panic" once a call
    \* has dereferenced a nil node
    tpc

cfgVars == <<input, initFn>>
envVars == <<callerCancelled, cancelledEarly>>
drvVars == <<dpc, driverCancelled, pRoot, pErr, retNode, retErr>>
posVars == <<pos, line, column, startPos, startLine, startColumn, b>>
lexVars == <<lpc, state, lexErr, lexemesClosed, doneClosed>>
stVars == <<runs, lastRunErr, sawCancel>>
chanVars == <<sending, delivered>>
treeVars == <<heap, root, node>>
parVars == <<ppc, parseFn, plexeme>>
fnVars == <<nextLog, lastPeek>>
obsVars == <<mu, opc, xpc, tpc>>

vars == <<cfgVars, envVars, drvVars, posVars, lexVars, stVars, chanVars,
          treeVars, parVars, fnVars, epc, call, obsVars>>

NoPeek == [at |-> -1, v |-> NilLexeme]

\* No operation has been called directly yet.
NoCall == [op |-> "none"]

\* The state after construction, but for the arguments.
InitRest ==
    /\ callerCancelled = FALSE
    /\ cancelledEarly = FALSE
    /\ dpc = "start"
    /\ driverCancelled = FALSE
    /\ pRoot = NilNode
    /\ pErr = Nil
    /\ retNode = NilNode
    /\ retErr = Nil
    /\ lpc = "idle"
    /\ state = Nil
    /\ pos = 0 /\ line = 0 /\ column = 0
    /\ startPos = 0 /\ startLine = 0 /\ startColumn = 0
    /\ b = <<>>
    /\ lexErr = Nil
    /\ lexemesClosed = 0
    /\ doneClosed = 0
    /\ runs = 0
    /\ lastRunErr = Nil
    /\ sawCancel = FALSE
    /\ sending = NilLexeme
    /\ delivered = <<>>
    /\ ppc = "idle"
    /\ parseFn = Nil
    /\ plexeme = NilLexeme
    /\ heap = <<>>
    /\ root = NilNode
    /\ node = NilNode
    /\ nextLog = <<>>
    /\ lastPeek = NoPeek
    /\ epc = "idle"
    /\ call = NoCall
    /\ mu = "free"
    /\ opc = "idle"
    /\ tpc = "idle"
    /\ xpc = "idle"

Init ==
    /\ input \in Inputs
    /\ initFn \in ParseFns
    /\ InitRest

(***************************************************************************)
(* The context.  LexParse derives ctx from the caller's context, so        *)
(* ctx.Done() is closed once the caller cancels or LexParse calls cancel.  *)
(***************************************************************************)
ctxDone == callerCancelled \/ driverCancelled
ctxErr == IF ctxDone THEN Canceled ELSE Nil

\* The caller cancels the context it passed to LexParse.  cancelledEarly
\* records that it did so while LexParse was running, both tasks were still
\* at work and the lexer had not consumed all of the input.
CallerCancel ==
    /\ ~callerCancelled
    /\ dpc \in {"start", "parse"}
    /\ callerCancelled' = TRUE
    /\ cancelledEarly' = (dpc = "parse" /\ pos < Len(input) /\ lpc \in {"loop", "run", "emit", "ignore"})
    /\ UNCHANGED <<cfgVars, drvVars, posVars, lexVars, stVars, chanVars,
                   treeVars, parVars, fnVars, epc, call, obsVars>>

(***************************************************************************)
(* Lexer                                                                   *)
(***************************************************************************)

\* Lexer.ignore
ignore_KeepStart ==
    /\ b' = <<>>
    /\ UNCHANGED <<startPos, startLine, startColumn>>
ignore ==
    /\ startPos' = pos
    /\ startLine' = line
    /\ startColumn' = column
    /\ b' = <<>>

\* Lexer.readrune on a reader that has a rune left; at end of input the
\* reader's error is returned before any field is touched.
readrune ==
    /\ pos < Len(input)
    /\ LET rn == input[pos + 1]
       IN  /\ pos' = pos + 1
           /\ IF rn = "\n"
              THEN line' = line + 1 /\ column' = 0
              ELSE line' = line /\ column' = column + 1
           /\ b' = Append(b, rn)
    /\ UNCHANGED <<startPos, startLine, startColumn>>

\* Lexer.Lexeme
Lexeme(typ) ==
    [Type |-> typ, Value |-> b, Pos |-> startPos, Line |-> startLine, Column |-> startColumn]

\* Lexer.setErr
setErr(err) == lexErr' = err

\* The head of the loop of the task started by Lexer.Lex: leave when
\* l.state is nil, record ctx.Err() and leave when ctx is done, else call
\* l.state.Run.
LexLoop ==
    /\ lpc = "loop"
    /\ IF state = Nil
       THEN /\ lpc' = "closeLexemes"
            /\ UNCHANGED <<lexErr, sawCancel, runs>>
       ELSE IF ctxDone
            THEN /\ setErr(ctxErr)
                 /\ sawCancel' = TRUE
                 /\ lpc' = "closeLexemes"
                 /\ UNCHANGED runs
            ELSE /\ lpc' = "run"
                 /\ runs' = runs + 1
                 /\ UNCHANGED <<lexErr, sawCancel>>
    /\ UNCHANGED <<cfgVars, envVars, drvVars, posVars, state, lexemesClosed, doneClosed,
                   lastRunErr, chanVars, treeVars, parVars, fnVars, epc, call, obsVars>>

\* A State calls Lexer.ReadRune.
LexReadRune ==
    /\ lpc = "run"
    /\ readrune
    /\ UNCHANGED <<cfgVars, envVars, drvVars, lexVars, stVars, chanVars,
                   treeVars, parVars, fnVars, epc, call, obsVars>>

\* A State calls Lexer.Emit with the lexeme Lexer.Lexeme gives it: the nil
\* checks pass, then the send on the unbuffered channel blocks until the
\* Parser receives.  A mutant returns from the send at once, as on a
\* channel with a buffer.
Emit_NoBlock ==
    /\ lpc = "run"
    /\ Len(delivered) < MaxLexemes
    /\ lpc' = "ignore"
    /\ delivered' = Append(delivered, Lexeme(wordType))
    /\ UNCHANGED <<cfgVars, envVars, drvVars, posVars, state, lexErr, lexemesClosed,
                   doneClosed, stVars, sending, treeVars, parVars, fnVars, epc, call, obsVars>>
Emit ==
    /\ lpc = "run"
    /\ Len(delivered) < MaxLexemes
    /\ lpc' = "emit"
    /\ sending' = Lexeme(wordType)
    /\ UNCHANGED <<cfgVars, envVars, drvVars, posVars, state, lexErr, lexemesClosed,
                   doneClosed, stVars, delivered, treeVars, parVars, fnVars, epc, call, obsVars>>

\* The l.Ignore() that ends Lexer.Emit, after the send has completed.
EmitIgnore ==
    /\ lpc = "ignore"
    /\ ignore
    /\ UNCHANGED <<pos, line, column>>
    /\ lpc' = "run"
    /\ UNCHANGED <<cfgVars, envVars, drvVars, state, lexErr, lexemesClosed, doneClosed,
                   stVars, chanVars, treeVars, parVars, fnVars, epc, call, obsVars>>

\* State.Run returns (next, err), the next state being nil when there is
\* an error: l.state is replaced; an error ends the task and is recorded
\* unless it is io.EOF.  A mutant records the error only as the lexeme
\* channel closes.
LexReturn_ErrAtClose(next, err) ==
    /\ lpc = "run"
    /\ next # Nil => runs < MaxRuns /\ err = Nil
    /\ state' = next
    /\ lastRunErr' = err
    /\ IF err # Nil
       THEN /\ IF ~IsEOF(err) THEN setErr(err) ELSE UNCHANGED lexErr
            /\ lexemesClosed' = lexemesClosed + 1
            /\ lpc' = "closeDone"
       ELSE /\ lpc' = "loop"
            /\ UNCHANGED <<lexErr, lexemesClosed>>
    /\ UNCHANGED <<cfgVars, envVars, drvVars, posVars, doneClosed,
                   runs, sawCancel, chanVars, treeVars, parVars, fnVars, epc, call, obsVars>>
LexReturn(next, err) ==
    /\ lpc = "run"
    /\ next # Nil => runs < MaxRuns /\ err = Nil
    /\ state' = next
    /\ lastRunErr' = err
    /\ IF err # Nil
       THEN /\ IF ~IsEOF(err) THEN setErr(err) ELSE UNCHANGED lexErr
            /\ lpc' = "closeLexemes"
       ELSE /\ lpc' = "loop"
            /\ UNCHANGED lexErr
    /\ UNCHANGED <<cfgVars, envVars, drvVars, posVars, lexemesClosed, doneClosed,
                   runs, sawCancel, chanVars, treeVars, parVars, fnVars, epc, call, obsVars>>

\* The deferred close(l.lexemes), with a mutant that leaves without closing.
CloseLexemes_Skip ==
    /\ lpc = "closeLexemes"
    /\ lpc' = "closeDone"
    /\ UNCHANGED <<cfgVars, envVars, drvVars, posVars, state, lexErr, lexemesClosed,
                   doneClosed, stVars, chanVars, treeVars, parVars, fnVars, epc, call, obsVars>>
CloseLexemes ==
    /\ lpc = "closeLexemes"
    /\ lexemesClosed' = lexemesClosed + 1
    /\ lpc' = "closeDone"
    /\ UNCHANGED <<cfgVars, envVars, drvVars, posVars, state, lexErr, doneClosed,
                   stVars, chanVars, treeVars, parVars, fnVars, epc, call, obsVars>>

\* The deferred close(l.done).
CloseDone ==
    /\ lpc = "closeDone"
    /\ doneClosed' = doneClosed + 1
    /\ lpc' = "done"
    /\ UNCHANGED <<cfgVars, envVars, drvVars, posVars, state, lexErr, lexemesClosed,
                   stVars, chanVars, treeVars, parVars, fnVars, epc, call, obsVars>>

StateErrs == {Nil, EOF, WrappedEOF, ErrState}

LexerStep ==
    \/ LexLoop
    \/ LexReadRune
    \/ Emit
    \/ EmitIgnore
    \/ \E next \in {Nil, "st"}, err \in StateErrs : LexReturn(next, err)
    \/ CloseLexemes
    \/ CloseDone

(***************************************************************************)
(* Parser                                                                  *)
(***************************************************************************)

\* NewParser's root node: the zero Node.
ZeroNode ==
    [Parent |-> NilNode, Children |-> <<>>, ChildrenNil |-> TRUE, Value |-> <<>>,
     Pos |-> 0, Line |-> 0, Column |-> 0]

\* Parser.newNode: the position is that of p.lexeme when it is set.
newNode(v) ==
    [Parent |-> NilNode, Children |-> <<>>, ChildrenNil |-> TRUE, Value |-> v,
     Pos |-> IF plexeme # NilLexeme THEN plexeme.Pos ELSE 0,
     Line |-> IF plexeme # NilLexeme THEN plexeme.Line ELSE 0,
     Column |-> IF plexeme # NilLexeme THEN plexeme.Column ELSE 0]

\* A Node that would put the new node before its siblings.
Node_Prepend(v) ==
    LET id == Len(heap) + 1
        new == [newNode(v) EXCEPT !.Parent = node]
    IN  /\ heap' = Append([heap EXCEPT ![node].Children = <<id>> \o @,
                                        ![node].ChildrenNil = FALSE], new)
        /\ UNCHANGED <<root, node>>

\* The nodes after Parser.Node: the new node has p.node as its parent and
\* is appended to p.node.Children.
NodeHeap(v) ==
    LET id == Len(heap) + 1
        new == [newNode(v) EXCEPT !.Parent = node]
    IN  Append([heap EXCEPT ![node].Children = Append(@, id),
                            ![node].ChildrenNil = FALSE], new)

\* Parser.Node: the new node becomes the last child of p.node.
Node(v) ==
    /\ heap' = NodeHeap(v)
    /\ UNCHANGED <<root, node>>

\* Parser.Push: Parser.Node, then the new node becomes p.node.
Push_NoMove(v) ==
    /\ heap' = NodeHeap(v)
    /\ UNCHANGED <<root, node>>
Push(v) ==
    /\ heap' = NodeHeap(v)
    /\ node' = Len(heap) + 1
    /\ UNCHANGED root

\* Parser.Climb: p.node becomes its parent, unless it has none.
Climb_Unguarded ==
    /\ node' = heap[node].Parent
    /\ UNCHANGED <<heap, root>>
Climb ==
    /\ node' = IF heap[node].Parent # NilNode THEN heap[node].Parent ELSE node
    /\ UNCHANGED <<heap, root>>

\* The receive "l, ok := <-p.lexemes" of Parser.Peek can complete when a
\* sender is blocked in Emit or the channel is closed.
RecvReady == lpc = "emit" \/ lexemesClosed > 0

\* Parser.Peek returns without blocking when p.lexeme is set.
PeekEnabled == plexeme # NilLexeme \/ RecvReady

\* The lexeme Parser.Peek returns: p.lexeme when set, else the lexeme
\* received, or nil when the channel is closed.
PeekLexeme ==
    IF plexeme # NilLexeme THEN plexeme
    ELSE IF lpc = "emit" THEN sending
    ELSE NilLexeme

\* The effect of Parser.Peek's receive on the channel and on the sender.
PeekRecv ==
    IF plexeme = NilLexeme /\ lpc = "emit"
    THEN /\ lpc' = "ignore"
         /\ sending' = NilLexeme
         /\ delivered' = Append(delivered, sending)
    ELSE UNCHANGED <<lpc, sending, delivered>>

\* Parser.Peek
ParserPeek ==
    /\ PeekEnabled
    /\ plexeme' = PeekLexeme
    /\ PeekRecv

\* Parser.Next, with a mutant that does not clear p.lexeme.
ParserNext_KeepLexeme ==
    /\ PeekEnabled
    /\ plexeme' = PeekLexeme
    /\ PeekRecv
ParserNext ==
    /\ PeekEnabled
    /\ plexeme' = NilLexeme
    /\ PeekRecv

\* Parser.Parse returns (p.root, err) to LexParse.
ParseReturn(err) ==
    /\ ppc' = "returned"
    /\ pRoot' = root
    /\ pErr' = err
    /\ dpc' = "cancel"
    /\ UNCHANGED <<driverCancelled, retNode, retErr>>

\* The head of Parse's loop: leave when parseFn is nil, return ctx.Err()
\* when ctx is done, else call parseFn.  A mutant does not look at ctx.
ParseLoop_NoCtx ==
    /\ ppc = "loop"
    /\ IF parseFn = Nil
       THEN /\ ParseReturn(Nil)
            /\ UNCHANGED call
       ELSE /\ ppc' = "fn"
            /\ call' = NoCall
            /\ UNCHANGED drvVars
    /\ lastPeek' = NoPeek
    /\ UNCHANGED <<cfgVars, envVars, posVars, lexVars, stVars, chanVars, treeVars,
                   parseFn, plexeme, nextLog, epc, obsVars>>
ParseLoop ==
    /\ ppc = "loop"
    /\ IF parseFn = Nil
       THEN /\ ParseReturn(Nil)
            /\ UNCHANGED call
       ELSE IF ctxDone
            THEN /\ ParseReturn(ctxErr)
                 /\ UNCHANGED call
            ELSE /\ ppc' = "fn"
                 /\ call' = NoCall
                 /\ UNCHANGED drvVars
    /\ lastPeek' = NoPeek
    /\ UNCHANGED <<cfgVars, envVars, posVars, lexVars, stVars, chanVars, treeVars,
                   parseFn, plexeme, nextLog, epc, obsVars>>

\* The parse function returns (fn, err): an error ends Parse, with a nil
\* error when it is io.EOF.  call keeps what the parse function returned
\* until the next parse function is called or LexParse goes on.  A mutant
\* returns io.EOF like any other error.
FnReturn_EOFIsError(fn, err) ==
    /\ parseFn' = fn
    /\ IF err # Nil
       THEN ParseReturn(err)
       ELSE /\ ppc' = "loop"
            /\ UNCHANGED drvVars
    /\ call' = [op |-> "parseFn", fn |-> fn, err |-> err]
    /\ UNCHANGED <<cfgVars, envVars, posVars, lexVars, stVars, chanVars, treeVars,
                   plexeme, fnVars, epc, obsVars>>
FnReturn(fn, err) ==
    /\ parseFn' = fn
    /\ IF err # Nil
       THEN ParseReturn(IF IsEOF(err) THEN Nil ELSE err)
       ELSE /\ ppc' = "loop"
            /\ UNCHANGED drvVars
    /\ call' = [op |-> "parseFn", fn |-> fn, err |-> err]
    /\ UNCHANGED <<cfgVars, envVars, posVars, lexVars, stVars, chanVars, treeVars,
                   plexeme, fnVars, epc, obsVars>>

\* The bound on the Next calls of anyFn.
MaxReads == MaxLexemes + 1

\* The result of the parse function's last Next.
cur == nextLog[Len(nextLog)]

\* anyFn calls p.Peek, any number of times before its Next.
FnPeek ==
    /\ ppc = "fn"
    /\ parseFn = "anyFn"
    /\ ParserPeek
    /\ lastPeek' = [at |-> Len(nextLog), v |-> PeekLexeme]
    /\ UNCHANGED <<cfgVars, envVars, drvVars, posVars, state, lexErr, lexemesClosed,
                   doneClosed, stVars, treeVars, ppc, parseFn, nextLog, epc, call, obsVars>>

\* A parse function calls p.Next: parseWord and errParseFn as their first
\* step, anyFn after its Peeks.
FnNext ==
    /\ ppc = "fn"
    /\ \/ parseFn \in {"parseWord", "errParseFn"}
       \/ parseFn = "anyFn" /\ Len(nextLog) < MaxReads
    /\ ParserNext
    /\ nextLog' = Append(nextLog, PeekLexeme)
    /\ ppc' = "fnNext"
    /\ UNCHANGED <<cfgVars, envVars, drvVars, posVars, state, lexErr, lexemesClosed,
                   doneClosed, stVars, treeVars, parseFn, lastPeek, epc, call, obsVars>>

\* parseWord calls p.Node with the value of the lexeme Next returned.
FnNode ==
    /\ ppc = "fnNext"
    /\ parseFn = "parseWord"
    /\ cur # NilLexeme
    /\ Node(cur.Value)
    /\ ppc' = "fnNode"
    /\ UNCHANGED <<cfgVars, envVars, drvVars, posVars, lexVars, stVars, chanVars,
                   parseFn, plexeme, fnVars, epc, call, obsVars>>

\* What each parse function returns, and when: parseWord and errParseFn
\* as in the tests; anyFn returns nil, with a nil error or io.EOF, at any
\* time, and itself after a Next.
FnReturns(fn, err) ==
    \/ /\ parseFn = "parseWord"
       /\ \/ ppc = "fnNext" /\ cur = NilLexeme /\ fn = Nil /\ err = Nil
          \/ ppc = "fnNode" /\ fn = "parseWord" /\ err = Nil
    \/ /\ parseFn = "errParseFn"
       /\ ppc = "fnNext" /\ fn = Nil /\ err = ErrParse
    \/ /\ parseFn = "anyFn"
       /\ ppc \in {"fn", "fnNext"}
       /\ fn \in {Nil, "anyFn"}
       /\ fn = "anyFn" => ppc = "fnNext" /\ err = Nil
       /\ err \in {Nil, EOF}

ParserStep ==
    \/ ParseLoop
    \/ FnPeek
    \/ FnNext
    \/ FnNode
    \/ \E fn \in {Nil, "parseWord", "anyFn"}, err \in {Nil, EOF, ErrParse} :
          FnReturns(fn, err) /\ FnReturn(fn, err)

(***************************************************************************)
(* LexParse                                                                *)
(***************************************************************************)

\* NewLexer, context.WithCancel, l.Lex(ctx) (the task starts) and NewParser.
LexParseStart ==
    /\ dpc = "start"
    /\ dpc' = "parse"
    /\ lpc' = "loop"
    /\ state' = "st"
    /\ heap' = <<ZeroNode>>
    /\ root' = 1
    /\ node' = 1
    /\ ppc' = "loop"
    /\ parseFn' = initFn
    /\ UNCHANGED <<cfgVars, envVars, driverCancelled, pRoot, pErr, retNode, retErr,
                   posVars, lexErr, lexemesClosed, doneClosed, stVars, chanVars,
                   plexeme, fnVars, epc, call, obsVars>>

\* cancel() after p.Parse has returned.
LexParseCancel ==
    /\ dpc = "cancel"
    /\ driverCancelled' = TRUE
    /\ dpc' = "wait"
    /\ call' = NoCall
    /\ UNCHANGED <<cfgVars, envVars, pRoot, pErr, retNode, retErr, posVars, lexVars,
                   stVars, chanVars, treeVars, parVars, fnVars, epc, obsVars>>

\* The error LexParse returns, with a mutant that does not set aside
\* context.Canceled.
LexParseErr_NoFilter(lErr, pe) == IF lErr # Nil THEN lErr ELSE pe
LexParseErr(lErr, pe) ==
    IF lErr # Nil /\ ~IsCanceled(lErr) THEN lErr ELSE pe

\* "<-l.Done()" can complete once l.done is closed; a mutant does not wait.
DoneReady_NoWait == TRUE
DoneReady == doneClosed > 0

\* <-l.Done(), l.Err() and the return of LexParse.
LexParseReturn ==
    /\ dpc = "wait"
    /\ DoneReady
    /\ retErr' = LexParseErr(lexErr, pErr)
    /\ retNode' = pRoot
    /\ dpc' = "returned"
    /\ UNCHANGED <<cfgVars, envVars, driverCancelled, pRoot, pErr, posVars, lexVars,
                   stVars, chanVars, treeVars, parVars, fnVars, epc, call, obsVars>>

DriverStep ==
    \/ LexParseStart
    \/ LexParseCancel
    \/ LexParseReturn

\* The calls from outside the two goroutines are followed once LexParse
\* has returned, in the runs of parseWord: what they meet in the Lexer does
\* not depend on the parse function.
OutsideReady == dpc = "returned" /\ initFn = "parseWord"

\* Lexer.Emit called from outside the lexing task once the task has
\* finished and LexParse has returned: a nil lexeme returns, a send on the
\* closed channel panics, a send on an open channel with no receiver blocks.
EmitNotRunning(lexeme) ==
    /\ epc = "idle"
    /\ opc = "idle" /\ xpc = "idle"
    /\ OutsideReady
    /\ lpc = "done"
    /\ epc' = IF lexeme = NilLexeme THEN "returned"
              ELSE IF lexemesClosed > 0 THEN "panicked"
              ELSE "blocked"
    /\ UNCHANGED <<cfgVars, envVars, drvVars, posVars, lexVars, stVars, chanVars,
                   treeVars, parVars, fnVars, call, obsVars>>

\* What the calls from other goroutines leave alone.
ObsFrame ==
    UNCHANGED <<cfgVars, envVars, drvVars, posVars, lexVars, stVars, chanVars,
                treeVars, parVars, fnVars, epc, call, tpc>>

\* Pos, Line, Column or Err called on another goroutine once the task is
\* gone: l.s.Lock() waits until the mutex is free.  A fatal error ends the
\* process, and the calls from outside are followed one scenario at a
\* time: an Emit, or calls that use the mutex.
ObsLock ==
    /\ opc = "idle"
    /\ xpc # "fatal"
    /\ epc = "idle"
    /\ OutsideReady
    /\ mu = "free"
    /\ mu' = "obs"
    /\ opc' = "locked"
    /\ UNCHANGED xpc
    /\ ObsFrame

\* The read of the field and l.s.Unlock(); unlocking a sync.Mutex that is
\* not locked is a fatal error.
ObsUnlock ==
    /\ opc = "locked"
    /\ xpc # "fatal"
    /\ IF mu = "free"
       THEN opc' = "fatal" /\ UNCHANGED mu
       ELSE opc' = "returned" /\ mu' = "free"
    /\ UNCHANGED xpc
    /\ ObsFrame

\* Lexer.Lex called on a Lexer whose done channel is closed: the select
\* takes the case <-l.Done(), which calls l.s.Unlock() with no Lock before
\* it and returns l.lexemes.
LexAgain ==
    /\ xpc = "idle"
    /\ opc # "fatal"
    /\ epc = "idle"
    /\ OutsideReady
    /\ doneClosed > 0
    /\ IF mu = "free"
       THEN xpc' = "fatal" /\ UNCHANGED mu
       ELSE xpc' = "returned" /\ mu' = "free"
    /\ UNCHANGED opc
    /\ ObsFrame

OutsideStep == ObsLock \/ ObsUnlock \/ LexAgain

Next ==
    \/ OutsideStep
    \/ CallerCancel
    \/ LexerStep
    \/ ParserStep
    \/ DriverStep
    \/ \E lexeme \in {NilLexeme, Lexeme(wordType)} : EmitNotRunning(lexeme)

Spec == Init /\ [][Next]_vars

\* The lexing goroutine and the goroutine running LexParse are scheduled
\* fairly; the caller's cancellation and outside calls are not.
FairSpec ==
    /\ Spec
    /\ WF_vars(LexerStep)
    /\ WF_vars(ParserStep)
    /\ WF_vars(DriverStep)

(***************************************************************************)
(* The Lexer's operations as a State calls them.  The fields of l.s are    *)
(* taken as one record, and every operation is a function from the record  *)
(* before the call to the record after it and the results.  The reader     *)
(* holds the input from l.s.pos on; its buffer is large enough for every   *)
(* Peek and it reports no error but io.EOF.                                *)
(***************************************************************************)

Min(x, y) == IF x < y THEN x ELSE y

\* l.s: pos, line, column, the start markers and the text of l.s.b.
LexState ==
    [pos |-> pos, line |-> line, column |-> column,
     startPos |-> startPos, startLine |-> startLine, startColumn |-> startColumn,
     b |-> b]

\* The assignment of a record to l.s.
SetLexState(s) ==
    /\ pos' = s.pos /\ line' = s.line /\ column' = s.column
    /\ startPos' = s.startPos /\ startLine' = s.startLine
    /\ startColumn' = s.startColumn
    /\ b' = s.b

\* The runes the reader has left.
Remaining(s) == Len(input) - s.pos

\* l.s.r.Peek(k): the next k runes, fewer with io.EOF when the input ends.
PeekRunes(s, k) == SubSeq(input, s.pos + 1, s.pos + Min(k, Remaining(s)))
PeekErr(s, k) == IF Remaining(s) < k THEN EOF ELSE Nil

\* Lexer.ignore on a record.
ignoreS_KeepText(s) ==
    [s EXCEPT !.startPos = s.pos, !.startLine = s.line, !.startColumn = s.column]
ignoreS_Swapped(s) ==
    [s EXCEPT !.startPos = s.pos, !.startLine = s.column, !.startColumn = s.line,
              !.b = <<>>]
ignoreS(s) ==
    [s EXCEPT !.startPos = s.pos, !.startLine = s.line, !.startColumn = s.column,
              !.b = <<>>]

\* Lexer.readrune on a record: the rune read is counted and written to
\* l.s.b; the reader's error is returned before any field is touched.
readruneS_NoWrite(s) ==
    IF Remaining(s) = 0 THEN [s |-> s, err |-> EOF]
    ELSE LET rn == input[s.pos + 1]
         IN  [s |-> [s EXCEPT !.pos = s.pos + 1,
                              !.line = IF rn = "\n" THEN s.line + 1 ELSE s.line,
                              !.column = IF rn = "\n" THEN 0 ELSE s.column + 1],
              err |-> Nil]
readruneS(s) ==
    IF Remaining(s) = 0 THEN [s |-> s, err |-> EOF]
    ELSE LET rn == input[s.pos + 1]
         IN  [s |-> [s EXCEPT !.pos = s.pos + 1,
                              !.line = IF rn = "\n" THEN s.line + 1 ELSE s.line,
                              !.column = IF rn = "\n" THEN 0 ELSE s.column + 1,
                              !.b = Append(s.b, rn)],
              err |-> Nil]

\* The loop of Lexer.advance over the runes it discarded: a newline
\* increments line and resets column, any other rune increments column.
RECURSIVE countRunes_NoReset(_, _)
countRunes_NoReset(s, rn) ==
    IF rn = <<>> THEN s
    ELSE countRunes_NoReset(
             IF Head(rn) = "\n"
             THEN [s EXCEPT !.line = s.line + 1, !.column = s.column + 1]
             ELSE [s EXCEPT !.column = s.column + 1],
             Tail(rn))
RECURSIVE countRunes(_, _)
countRunes(s, rn) ==
    IF rn = <<>> THEN s
    ELSE countRunes(
             IF Head(rn) = "\n"
             THEN [s EXCEPT !.line = s.line + 1, !.column = 0]
             ELSE [s EXCEPT !.column = s.column + 1],
             Tail(rn))

\* Lexer.advance writes the peeked runes to l.s.b unless it discards.
writePeeked_Never(s, rn, discard) == s
writePeeked(s, rn, discard) ==
    IF discard THEN s ELSE [s EXCEPT !.b = s.b \o rn]

\* "Minimum size the buffer of underlying reader could be expected to be."
minSize == 16

\* The error of a reader other than io.EOF.
ErrReader == "errReader"

\* fmt.Errorf("discarding input: %w", err) for the error Peek returned: it
\* wraps io.EOF when that is io.EOF, and nothing when that is nil.
DiscardingInput(err) ==
    IF err = EOF THEN "discarding input: EOF" ELSE "discarding input: %!w(<nil>)"

\* errors.Unwrap and errors.Is on the error values.
Unwrap(err) ==
    IF err \in {WrappedEOF, "discarding input: EOF"} THEN EOF ELSE Nil
Is(err, target) == err = target \/ Unwrap(err) = target

\* When the reader's Discard fails: in iteration at of the loop (0 for
\* never) it discards d of the runes asked for, when that is fewer than
\* asked for, and reports ErrReader.
NoFault == [at |-> 0, d |-> 0]

\* The loop of Lexer.advance.  bufs holds the values Buffered() returns in
\* the coming iterations (0 once it is used up), never more than the
\* reader has left.  Discard of the runes just peeked discards them all
\* unless it fails.
RECURSIVE advanceLoopF(_, _, _, _, _, _)
advanceLoopF(s, n, discard, bufs, advanced, fault) ==
    IF n <= 0 THEN [s |-> s, n |-> advanced, err |-> Nil, dErr |-> Nil]
    ELSE LET buffered == IF bufs = <<>> THEN 0 ELSE Min(Head(bufs), Remaining(s))
             lesser == IF n < buffered THEN n ELSE buffered
             toRead == IF lesser = 0
                       THEN (IF minSize < n THEN minSize ELSE n)
                       ELSE lesser
             rn == PeekRunes(s, toRead)
             err == PeekErr(s, toRead)
             fails == fault.at = 1 /\ fault.d < Len(rn)
             d == IF fails THEN fault.d ELSE Len(rn)
             dErr == IF fails THEN ErrReader ELSE Nil
             s1 == writePeeked(countRunes([s EXCEPT !.pos = s.pos + d], SubSeq(rn, 1, d)),
                               rn, discard)
         IN  IF dErr # Nil
             THEN [s |-> s1, n |-> advanced + d, err |-> DiscardingInput(err),
                   dErr |-> dErr]
             ELSE IF err # Nil
             THEN [s |-> s1, n |-> advanced + d, err |-> err, dErr |-> Nil]
             ELSE advanceLoopF(s1, n - d, discard,
                               IF bufs = <<>> THEN bufs ELSE Tail(bufs), advanced + d,
                               [fault EXCEPT !.at = IF @ > 0 THEN @ - 1 ELSE 0])

\* The loop on a reader whose Discard does not fail.
advanceLoop(s, n, discard, bufs, advanced) ==
    advanceLoopF(s, n, discard, bufs, advanced, NoFault)

\* Lexer.advance: with discard, the deferred l.ignore() runs on return.
advance_NoIgnore(s, n, discard, bufs) == advanceLoop(s, n, discard, bufs, 0)
advance(s, n, discard, bufs) ==
    LET r == advanceLoop(s, n, discard, bufs, 0)
    IN  IF discard THEN [r EXCEPT !.s = ignoreS(r.s)] ELSE r

\* Lexer.advance on a reader whose Discard fails as fault says.
advanceF(s, n, discard, bufs, fault) ==
    LET r == advanceLoopF(s, n, discard, bufs, 0, fault)
    IN  IF discard THEN [r EXCEPT !.s = ignoreS(r.s)] ELSE r

\* The length of the longest token (maxLen of Find and SkipTo).
maxLen(tokens) ==
    IF tokens = <<>> THEN 0
    ELSE CHOOSE m \in {Len(tokens[j]) : j \in 1..Len(tokens)} :
             \A j \in 1..Len(tokens) : Len(tokens[j]) <= m

\* strings.HasPrefix
HasPrefix(rns, tok) == Len(tok) <= Len(rns) /\ SubSeq(rns, 1, Len(tok)) = tok

\* "for j := range tokens { if strings.HasPrefix(...) { return tokens[j] } }":
\* the index of the first token of the list that rns starts with, 0 for none.
firstMatch_Last(rns, tokens) ==
    LET m == {j \in 1..Len(tokens) : HasPrefix(rns, tokens[j])}
    IN  IF m = {} THEN 0 ELSE CHOOSE j \in m : \A k \in m : j >= k
firstMatch(rns, tokens) ==
    LET m == {j \in 1..Len(tokens) : HasPrefix(rns, tokens[j])}
    IN  IF m = {} THEN 0 ELSE CHOOSE j \in m : \A k \in m : j <= k

\* Lexer.Find: peek maxLen runes, return the first token they start with,
\* else read one rune and try again; the reader's error ends the search.
RECURSIVE Find(_, _)
Find(s, tokens) ==
    LET rns == PeekRunes(s, maxLen(tokens))
        j == firstMatch(rns, tokens)
    IN  IF j # 0 THEN [s |-> s, tok |-> tokens[j], err |-> Nil]
        ELSE LET r == readruneS(s)
             IN  IF r.err # Nil THEN [s |-> r.s, tok |-> <<>>, err |-> r.err]
                 ELSE Find(r.s, tokens)

\* Lexer.SkipTo: peek max(Buffered(), maxLen) runes, look at every window
\* of maxLen runes in them for a token it starts with, discard the runes
\* before the first such window; with no such window discard the runes
\* that cannot start one (one at least) and try again.
RECURSIVE SkipToF(_, _, _, _)
SkipToF(s, tokens, bufs, fault) ==
    LET ml == maxLen(tokens)
        buffered == IF bufs = <<>> THEN 0 ELSE Min(Head(bufs), Remaining(s))
        rest == IF bufs = <<>> THEN bufs ELSE Tail(bufs)
        bufS == IF buffered < ml THEN ml ELSE buffered
        rns == PeekRunes(s, bufS)
        window(i) == SubSeq(rns, i + 1, i + ml)
        hits == {i \in 0..(Len(rns) - ml) : firstMatch(window(i), tokens) # 0}
    IN  IF hits # {}
        THEN LET i == CHOOSE h \in hits : \A k \in hits : h <= k
                 a == IF fault = NoFault THEN advance(s, i, TRUE, rest)
                      ELSE advanceF(s, i, TRUE, rest, fault)
             IN  IF a.err # Nil
                 THEN [s |-> a.s, tok |-> <<>>, err |-> a.err, dErr |-> a.dErr]
                 ELSE [s |-> a.s, tok |-> tokens[firstMatch(window(i), tokens)],
                       err |-> Nil, dErr |-> Nil]
        ELSE LET toDiscard == IF Len(rns) - ml + 1 <= 0 THEN 1 ELSE Len(rns) - ml + 1
                 a == IF fault = NoFault THEN advance(s, toDiscard, TRUE, rest)
                      ELSE advanceF(s, toDiscard, TRUE, rest, fault)
             IN  IF a.err # Nil
                 THEN [s |-> a.s, tok |-> <<>>, err |-> a.err, dErr |-> a.dErr]
                 ELSE SkipToF(a.s, tokens, rest, NoFault)

\* Lexer.SkipTo on a reader whose Discard does not fail.
SkipTo(s, tokens, bufs) == SkipToF(s, tokens, bufs, NoFault)

\* Lexer.Lexeme on a record.
LexemeS(s, typ) ==
    [Type |-> typ, Value |-> s.b, Pos |-> s.startPos, Line |-> s.startLine,
     Column |-> s.startColumn]

(***************************************************************************)
(* A State at work: the operations of the Lexer called one after another   *)
(* on a new Lexer, by one goroutine, as the tests of the Lexer do.  call   *)
(* keeps the last call: its arguments, l.s before it and what it returned. *)
(***************************************************************************)

\* The counts passed to Advance and Discard: up to one more than the input
\* can hold.
Counts == 0..(MaxInputLen + 2)

\* The values Buffered() returns in the first two iterations of a loop:
\* nothing, one rune, or all that is left.
Chunkings == [1..2 -> {0, 1, MaxInputLen + 1}]

\* The tokens and the token lists passed to Find and SkipTo.
Tokens == {<<"a">>, <<"\n">>, <<"a", "\n">>}
TokenLists ==
    {<<t>> : t \in Tokens} \cup {<<p[1], p[2]>> : p \in {q \in Tokens \X Tokens : q[1] # q[2]}}

\* What a call leaves alone: everything but l.s and its own record.
CallFrame ==
    UNCHANGED <<cfgVars, envVars, drvVars, lexVars, stVars, chanVars, treeVars,
                parVars, fnVars, epc, obsVars>>

\* The record of a call.
Called(op, n, tokens, r) ==
    [op |-> op, n |-> n, tokens |-> tokens, pre |-> LexState,
     count |-> r.n, err |-> r.err, tok |-> r.tok, lx |-> r.lx]

NoResult == [n |-> 0, err |-> Nil, tok |-> <<>>, lx |-> NilLexeme]

\* Lexer.ReadRune
CallReadRune ==
    LET r == readruneS(LexState)
    IN  /\ SetLexState(r.s)
        /\ call' = Called("ReadRune", 1, <<>>,
                          [NoResult EXCEPT !.n = IF r.err = Nil THEN 1 ELSE 0,
                                           !.err = r.err])
        /\ CallFrame

\* Lexer.Advance
CallAdvance(n, bufs) ==
    LET r == advance(LexState, n, FALSE, bufs)
    IN  /\ SetLexState(r.s)
        /\ call' = Called("Advance", n, <<>>, [NoResult EXCEPT !.n = r.n, !.err = r.err])
        /\ CallFrame

\* Lexer.Discard
CallDiscard(n, bufs) ==
    LET r == advance(LexState, n, TRUE, bufs)
    IN  /\ SetLexState(r.s)
        /\ call' = Called("Discard", n, <<>>, [NoResult EXCEPT !.n = r.n, !.err = r.err])
        /\ CallFrame

\* Lexer.Find
CallFind(tokens) ==
    LET r == Find(LexState, tokens)
    IN  /\ SetLexState(r.s)
        /\ call' = Called("Find", 0, tokens, [NoResult EXCEPT !.tok = r.tok, !.err = r.err])
        /\ CallFrame

\* Lexer.SkipTo
CallSkipTo(tokens, bufs) ==
    LET r == SkipTo(LexState, tokens, bufs)
    IN  /\ SetLexState(r.s)
        /\ call' = Called("SkipTo", 0, tokens, [NoResult EXCEPT !.tok = r.tok, !.err = r.err])
        /\ CallFrame

\* Lexer.Ignore
CallIgnore ==
    /\ SetLexState(ignoreS(LexState))
    /\ call' = Called("Ignore", 0, <<>>, NoResult)
    /\ CallFrame

\* Lexer.Lexeme
CallLexeme ==
    /\ SetLexState(LexState)
    /\ call' = Called("Lexeme", 0, <<>>, [NoResult EXCEPT !.lx = LexemeS(LexState, wordType)])
    /\ CallFrame

\* Lexer.Emit of the lexeme Lexer.Lexeme gives, with a receiver at the
\* other end of the channel: the send completes, then l.Ignore() runs.
CallEmit ==
    /\ SetLexState(ignoreS(LexState))
    /\ call' = Called("Emit", 0, <<>>, [NoResult EXCEPT !.lx = LexemeS(LexState, wordType)])
    /\ CallFrame

LexerNext ==
    \/ CallReadRune
    \/ \E n \in Counts, bufs \in Chunkings : CallAdvance(n, bufs)
    \/ \E n \in Counts, bufs \in Chunkings : CallDiscard(n, bufs)
    \/ \E tokens \in TokenLists : CallFind(tokens)
    \/ \E tokens \in TokenLists, bufs \in Chunkings : CallSkipTo(tokens, bufs)
    \/ CallIgnore
    \/ CallLexeme
    \/ CallEmit

\* NewLexer, and no Lex: the operations are called directly.
LexerInit ==
    /\ input \in SeqsUpTo(Runes, MaxInputLen + 1)
    /\ initFn = "parseWord"
    /\ InitRest

LexerSpec == LexerInit /\ [][LexerNext]_vars

(***************************************************************************)
(* The same operations on a reader whose Discard fails: it discards fewer  *)
(* runes than it was asked to and reports ErrReader.  call also keeps the  *)
(* error Discard reported.                                                 *)
(***************************************************************************)

\* The failures of Discard: in the first or the second iteration, after
\* none or one of the runes.
Faults == [at : 1..2, d : 0..1]

\* The counts passed to Advance and Discard, the values of Buffered() (as
\* much as is asked for, or one rune at a time) and the token lists.
ReaderCounts == 1..(MaxInputLen + 1)
ReaderChunkings == {<<>>, <<1, 1>>}
ReaderTokenLists == {<<t>> : t \in Tokens}

\* The State goes on calling until a call returns an error.
ReaderReady == IF call = NoCall THEN TRUE ELSE call.err = Nil

\* The record of a call on the failing reader.
CalledF(op, n, tokens, count, r) ==
    [op |-> op, n |-> n, tokens |-> tokens, pre |-> LexState,
     count |-> count, err |-> r.err, tok |-> <<>>, lx |-> NilLexeme,
     dErr |-> r.dErr]

\* Lexer.ReadRune
CallReadRuneF ==
    /\ ReaderReady
    /\ CallReadRune

\* Lexer.Advance
CallAdvanceF(n, bufs, fault) ==
    LET r == advanceF(LexState, n, FALSE, bufs, fault)
    IN  /\ ReaderReady
        /\ SetLexState(r.s)
        /\ call' = CalledF("Advance", n, <<>>, r.n, r)
        /\ CallFrame

\* Lexer.Discard
CallDiscardF(n, bufs, fault) ==
    LET r == advanceF(LexState, n, TRUE, bufs, fault)
    IN  /\ ReaderReady
        /\ SetLexState(r.s)
        /\ call' = CalledF("Discard", n, <<>>, r.n, r)
        /\ CallFrame

\* Lexer.SkipTo
CallSkipToF(tokens, bufs, fault) ==
    LET r == SkipToF(LexState, tokens, bufs, fault)
    IN  /\ ReaderReady
        /\ SetLexState(r.s)
        /\ call' = [CalledF("SkipTo", 0, tokens, 0, r) EXCEPT !.tok = r.tok]
        /\ CallFrame

ReaderNext ==
    \/ CallReadRuneF
    \/ \E n \in ReaderCounts, bufs \in ReaderChunkings, fault \in Faults :
          CallAdvanceF(n, bufs, fault)
    \/ \E n \in ReaderCounts, bufs \in ReaderChunkings, fault \in Faults :
          CallDiscardF(n, bufs, fault)
    \/ \E tokens \in ReaderTokenLists, bufs \in ReaderChunkings, fault \in Faults :
          CallSkipToF(tokens, bufs, fault)

\* NewLexer, and no Lex.
ReaderInit ==
    /\ input \in Inputs
    /\ initFn = "parseWord"
    /\ InitRest

ReaderSpec == ReaderInit /\ [][ReaderNext]_vars

(***************************************************************************)
(* A parse function at work on the tree: the tree operations of the Parser *)
(* called one after another on a new Parser that has no lexeme, as the     *)
(* tests of the Parser do.  call keeps the last call: its argument, the    *)
(* tree and the cursor before it and the node it returned.  The nodes are  *)
(* the elements of heap, a child or a parent is the index of a node and    *)
(* NilNode is nil; ChildrenNil tells a nil Children slice from an empty    *)
(* one.  RotateLeftPromote and AdoptSibling are the RotateLeft and the     *)
(* AdoptSibling of the parser that promotes the cursor node over its       *)
(* parent.                                                                 *)
(***************************************************************************)

\* The values given to the nodes by Node and Push, and by Replace.
NodeValues == {<<"a">>}
ReplaceValues == {<<"a">>, <<"b">>}

\* p.root, p.node and the nodes.
TreeState == [heap |-> heap, root |-> root, node |-> node]

\* What a call on the tree leaves alone.
TreeFrame ==
    UNCHANGED <<cfgVars, envVars, drvVars, posVars, lexVars, stVars, chanVars,
                parVars, fnVars, epc, mu, opc, xpc>>

\* The tree, the root and the cursor become those of the result r.
SetTree(r) ==
    /\ heap' = r.heap
    /\ root' = r.root
    /\ node' = r.node

\* Node.Left and Node.Right: the first and the second child, nil when the
\* list is shorter.
Left(h, p) == IF Len(h[p].Children) > 0 THEN h[p].Children[1] ELSE NilNode
Right_OrLeft(h, p) ==
    IF Len(h[p].Children) > 1 THEN h[p].Children[2] ELSE Left(h, p)
Right(h, p) == IF Len(h[p].Children) > 1 THEN h[p].Children[2] ELSE NilNode

\* "for len(p.Children) < k { p.Children = append(p.Children, nil) }"
Pad(cs, k) ==
    IF Len(cs) < k THEN cs \o [i \in 1..(k - Len(cs)) |-> NilNode] ELSE cs

\* Node.SetLeft (i = 1) and Node.SetRight (i = 2): pad the list, store c
\* in slot i and set c.Parent, which dereferences c: with a nil c the slot
\* has been written when the call panics.
SetChild_NoParent(h, p, i, c) ==
    LET cs == Pad(h[p].Children, i)
    IN  [heap |-> [h EXCEPT ![p].Children = [cs EXCEPT ![i] = c],
                            ![p].ChildrenNil = FALSE],
         old |-> cs[i],
         fault |-> c = NilNode]
SetChild(h, p, i, c) ==
    LET cs == Pad(h[p].Children, i)
        h1 == [h EXCEPT ![p].Children = [cs EXCEPT ![i] = c],
                        ![p].ChildrenNil = FALSE]
    IN  [heap |-> IF c = NilNode THEN h1 ELSE [h1 EXCEPT ![c].Parent = p],
         old |-> cs[i],
         fault |-> c = NilNode]

SetLeft(h, p, l) == SetChild(h, p, 1, l)
SetRight(h, p, r) == SetChild(h, p, 2, r)

\* Node.ReplaceChild: every slot of p that holds l gets r, and r.Parent
\* becomes p; l.Parent is left alone.
ReplaceChild(h, p, l, r) ==
    LET cs == h[p].Children
        h1 == [h EXCEPT ![p].Children =
                  [i \in 1..Len(cs) |-> IF cs[i] = l THEN r ELSE cs[i]]]
    IN  IF \E i \in 1..Len(cs) : cs[i] = l
        THEN [h1 EXCEPT ![r].Parent = p]
        ELSE h1

\* The first slot of cs that holds x, 0 when there is none.
IndexOf(cs, x) ==
    IF \E i \in 1..Len(cs) : cs[i] = x
    THEN CHOOSE i \in 1..Len(cs) : cs[i] = x /\ \A j \in 1..(i - 1) : cs[j] # x
    ELSE 0

\* Parser.Replace on the tree t: the new node takes the parent and the
\* first slot of the cursor node in it, gets a copy of a non-nil children
\* list with the children's Parent set to it, becomes the root when the
\* cursor node was, and becomes the cursor; the old value is returned.
Replace_DropChildren(t, v) ==
    LET h == t.heap
        c == t.node
        id == Len(h) + 1
        par == h[c].Parent
        n == [newNode(v) EXCEPT !.Parent = par]
        h1 == IF par # NilNode /\ IndexOf(h[par].Children, c) # 0
              THEN [h EXCEPT ![par].Children[IndexOf(h[par].Children, c)] = id]
              ELSE h
    IN  [heap |-> Append(h1, n),
         root |-> IF c = t.root THEN id ELSE t.root,
         node |-> id,
         val |-> h[c].Value]
Replace(t, v) ==
    LET h == t.heap
        c == t.node
        id == Len(h) + 1
        par == h[c].Parent
        n == [newNode(v) EXCEPT !.Parent = par,
                                !.Children = IF h[c].ChildrenNil THEN <<>>
                                             ELSE h[c].Children,
                                !.ChildrenNil = h[c].ChildrenNil]
        h1 == IF par # NilNode /\ IndexOf(h[par].Children, c) # 0
              THEN [h EXCEPT ![par].Children[IndexOf(h[par].Children, c)] = id]
              ELSE h
        h2 == [k \in 1..Len(h1) |->
                  IF \E i \in 1..Len(n.Children) : n.Children[i] = k
                  THEN [h1[k] EXCEPT !.Parent = id]
                  ELSE h1[k]]
    IN  [heap |-> Append(h2, n),
         root |-> IF c = t.root THEN id ELSE t.root,
         node |-> id,
         val |-> h[c].Value]

\* The binary rotation of the tree t at the cursor P: Q is P's child in
\* slot from (2 for RotateLeft, 1 for RotateRight); P gets Q's child of
\* slot to in slot from, Q gets P in slot to, Q takes P's place under P's
\* former parent or gets a nil parent, and Q becomes the cursor, and the
\* root when P was.  Without Q the call returns the cursor and changes
\* nothing; without Q's inner child the first store panics.
Rotate(t, from, to) ==
    LET h == t.heap
        subRoot == t.node
        subRootParent == h[subRoot].Parent
        q == IF from = 2 THEN Right(h, subRoot) ELSE Left(h, subRoot)
        inner == IF to = 1 THEN Left(h, q) ELSE Right(h, q)
        s1 == SetChild(h, subRoot, from, inner)
        s2 == SetChild(s1.heap, q, to, subRoot)
        h3 == IF subRootParent # NilNode
              THEN ReplaceChild(s2.heap, subRootParent, subRoot, q)
              ELSE [s2.heap EXCEPT ![q].Parent = NilNode]
    IN  IF q = NilNode
        THEN [heap |-> h, root |-> t.root, node |-> t.node, ret |-> t.node,
              fault |-> FALSE]
        ELSE IF s1.fault
        THEN [heap |-> s1.heap, root |-> t.root, node |-> t.node, ret |-> NilNode,
              fault |-> TRUE]
        ELSE [heap |-> h3, root |-> IF subRoot = t.root THEN q ELSE t.root,
              node |-> q, ret |-> q, fault |-> FALSE]

\* Parser.RotateLeft and Parser.RotateRight of the binary tree.
RotateLeft_KeepCursor(t) == [Rotate(t, 2, 1) EXCEPT !.node = t.node]
RotateLeft(t) == Rotate(t, 2, 1)
RotateRight(t) == Rotate(t, 1, 2)

\* ErrMissingRequiredNode
ErrMissingRequiredNode == "missing required node"

\* cs without x.
Without(cs, x) == SelectSeq(cs, LAMBDA y : y # x)

\* cs with n in every slot that holds x.
Swapped(cs, x, n) == [i \in 1..Len(cs) |-> IF cs[i] = x THEN n ELSE cs[i]]

\* The RotateLeft of the parser that promotes the cursor node n over its
\* parent op: n leaves op.Children, op is appended to n.Children, n
\* takes op's parent and op's slot in it, and becomes the root when op
\* was.  On a node without a parent it returns (nil, ErrMissingRequiredNode).
RotateLeftPromote_Front(t) ==
    LET h == t.heap
        n == t.node
        op == h[n].Parent
        gp == h[op].Parent
        h1 == [h EXCEPT ![op].Children = Without(@, n)]
        h2 == [h1 EXCEPT ![n].Children = <<op>> \o @, ![n].ChildrenNil = FALSE]
        h3 == [h2 EXCEPT ![op].Parent = n]
        h4 == [h3 EXCEPT ![n].Parent = gp]
        h5 == IF gp # NilNode
              THEN [h4 EXCEPT ![gp].Children = Swapped(@, op, n)]
              ELSE h4
    IN  IF op = NilNode
        THEN [heap |-> h, root |-> t.root, node |-> t.node, ret |-> NilNode,
              err |-> ErrMissingRequiredNode]
        ELSE [heap |-> h5, root |-> IF t.root = op THEN n ELSE t.root,
              node |-> t.node, ret |-> n, err |-> Nil]
RotateLeftPromote(t) ==
    LET h == t.heap
        n == t.node
        op == h[n].Parent
        gp == h[op].Parent
        h1 == [h EXCEPT ![op].Children = Without(@, n)]
        h2 == [h1 EXCEPT ![n].Children = Append(@, op), ![n].ChildrenNil = FALSE]
        h3 == [h2 EXCEPT ![op].Parent = n]
        h4 == [h3 EXCEPT ![n].Parent = gp]
        h5 == IF gp # NilNode
              THEN [h4 EXCEPT ![gp].Children = Swapped(@, op, n)]
              ELSE h4
    IN  IF op = NilNode
        THEN [heap |-> h, root |-> t.root, node |-> t.node, ret |-> NilNode,
              err |-> ErrMissingRequiredNode]
        ELSE [heap |-> h5, root |-> IF t.root = op THEN n ELSE t.root,
              node |-> t.node, ret |-> n, err |-> Nil]

\* The sibling AdoptSibling finds: the last child of op before the first
\* slot that holds n, nil when n is the first child.
PrevSibling_First(cs, n) ==
    IF IndexOf(cs, n) = 0 THEN (IF cs = <<>> THEN NilNode ELSE cs[Len(cs)])
    ELSE IF IndexOf(cs, n) = 1 THEN NilNode
    ELSE cs[1]
PrevSibling(cs, n) ==
    IF IndexOf(cs, n) = 0 THEN (IF cs = <<>> THEN NilNode ELSE cs[Len(cs)])
    ELSE IF IndexOf(cs, n) = 1 THEN NilNode
    ELSE cs[IndexOf(cs, n) - 1]

\* Parser.AdoptSibling: the sibling s before the cursor node n leaves
\* op.Children and is appended to n.Children with n as its parent.
\* Without a parent or without such a sibling it returns
\* (nil, ErrMissingRequiredNode).
AdoptSibling_Always(t) ==
    LET h == t.heap
        n == t.node
        op == h[n].Parent
        s == IF op = NilNode THEN NilNode ELSE h[op].Children[1]
        h1 == [h EXCEPT ![op].Children = Without(@, s)]
        h2 == [h1 EXCEPT ![n].Children = Append(@, s), ![n].ChildrenNil = FALSE]
        h3 == [h2 EXCEPT ![s].Parent = n]
    IN  IF op = NilNode
        THEN [heap |-> h, root |-> t.root, node |-> t.node, ret |-> NilNode,
              err |-> ErrMissingRequiredNode]
        ELSE [heap |-> h3, root |-> t.root, node |-> t.node, ret |-> n, err |-> Nil]
AdoptSibling(t) ==
    LET h == t.heap
        n == t.node
        op == h[n].Parent
        s == IF op = NilNode THEN NilNode ELSE PrevSibling(h[op].Children, n)
        h1 == [h EXCEPT ![op].Children = Without(@, s)]
        h2 == [h1 EXCEPT ![n].Children = Append(@, s), ![n].ChildrenNil = FALSE]
        h3 == [h2 EXCEPT ![s].Parent = n]
    IN  IF op = NilNode \/ s = NilNode
        THEN [heap |-> h, root |-> t.root, node |-> t.node, ret |-> NilNode,
              err |-> ErrMissingRequiredNode]
        ELSE [heap |-> h3, root |-> t.root, node |-> t.node, ret |-> n, err |-> Nil]

\* Parser.Pop of the parser that promotes the cursor node: p.node becomes
\* its parent, also when that is nil.
Pop ==
    /\ node' = heap[node].Parent
    /\ UNCHANGED <<heap, root>>

\* The caller has a Parser with a cursor and no call of it has panicked.
TreeReady == heap # <<>> /\ tpc = "idle" /\ node # NilNode

\* NewParser(nil)
CallNewParser ==
    /\ heap = <<>>
    /\ heap' = <<ZeroNode>>
    /\ root' = 1
    /\ node' = 1
    /\ call' = [op |-> "NewParser", v |-> <<>>, pre |-> TreeState, ret |-> NilNode]
    /\ UNCHANGED tpc
    /\ TreeFrame

\* Parser.Node
CallNode(v) ==
    /\ TreeReady
    /\ Len(heap) < MaxNodes
    /\ Node(v)
    /\ call' = [op |-> "Node", v |-> v, pre |-> TreeState, ret |-> Len(heap) + 1]
    /\ UNCHANGED tpc
    /\ TreeFrame

\* Parser.Push
CallPush(v) ==
    /\ TreeReady
    /\ Len(heap) < MaxNodes
    /\ Push(v)
    /\ call' = [op |-> "Push", v |-> v, pre |-> TreeState, ret |-> Len(heap) + 1]
    /\ UNCHANGED tpc
    /\ TreeFrame

\* Parser.Climb
CallClimb ==
    /\ TreeReady
    /\ Climb
    /\ call' = [op |-> "Climb", v |-> <<>>, pre |-> TreeState, ret |-> node]
    /\ UNCHANGED tpc
    /\ TreeFrame

\* Parser.Pop
CallPop ==
    /\ TreeReady
    /\ Pop
    /\ call' = [op |-> "Pop", v |-> <<>>, pre |-> TreeState, ret |-> node]
    /\ UNCHANGED tpc
    /\ TreeFrame

\* A tree operation called when p.node is nil: each of them reads a field
\* of p.node before its first store to the tree, which panics.
CallNilCursor ==
    /\ heap # <<>>
    /\ tpc = "idle"
    /\ node = NilNode
    /\ tpc' = "panic"
    /\ call' = [op |-> "nil cursor", v |-> <<>>, pre |-> TreeState, ret |-> NilNode]
    /\ UNCHANGED treeVars
    /\ TreeFrame

\* Parser.Replace
CallReplace(v) ==
    /\ TreeReady
    /\ Len(heap) < MaxNodes
    /\ SetTree(Replace(TreeState, v))
    /\ call' = [op |-> "Replace", v |-> v, pre |-> TreeState, ret |-> Len(heap) + 1,
                val |-> Replace(TreeState, v).val]
    /\ UNCHANGED tpc
    /\ TreeFrame

\* Parser.RotateLeft and Parser.RotateRight of the binary tree: a nil
\* dereference panics and ends the caller.  The call record of a rotation
\* that immediately follows a rotation also keeps that rotation and the
\* tree before it.
CallRotate(op, r) ==
    /\ TreeReady
    /\ SetTree(r)
    /\ tpc' = IF r.fault THEN "panic" ELSE "idle"
    /\ call' = [op |-> op, v |-> <<>>, pre |-> TreeState, ret |-> r.ret,
                before |-> IF call.op \in {"RotateLeft", "RotateRight"}
                           THEN [op |-> call.op, pre |-> call.pre]
                           ELSE NoCall]
    /\ TreeFrame

CallRotateLeft == CallRotate("RotateLeft", RotateLeft(TreeState))
CallRotateRight == CallRotate("RotateRight", RotateRight(TreeState))

\* The parent-promotion RotateLeft and AdoptSibling.
CallOld(op, r) ==
    /\ TreeReady
    /\ SetTree(r)
    /\ call' = [op |-> op, v |-> <<>>, pre |-> TreeState, ret |-> r.ret,
                err |-> r.err]
    /\ UNCHANGED tpc
    /\ TreeFrame

CallRotateLeftPromote == CallOld("RotateLeftPromote", RotateLeftPromote(TreeState))
CallAdoptSibling == CallOld("AdoptSibling", AdoptSibling(TreeState))

TreeNext ==
    \/ CallNewParser
    \/ \E v \in NodeValues : CallNode(v)
    \/ \E v \in NodeValues : CallPush(v)
    \/ CallClimb
    \/ CallPop
    \/ CallNilCursor
    \/ \E v \in ReplaceValues : CallReplace(v)
    \/ CallRotateLeft
    \/ CallRotateRight
    \/ CallRotateLeftPromote
    \/ CallAdoptSibling

TreeInit ==
    /\ input = <<>>
    /\ initFn = "parseWord"
    /\ InitRest

TreeSpec == TreeInit /\ [][TreeNext]_vars

(***************************************************************************)
(* The calc example: lexState.Run turns the input into lexemes and the     *)
(* parse function of myParseFn builds the tree of the expression with      *)
(* Push, Node, RotateLeftPromote and AdoptSibling.  The lexemes are taken  *)
(* one by one with Next; nextLog is the log of what Next returned.         *)
(***************************************************************************)

\* The token types of calc.
noToken == 0
mulOpToken == 1
addOpToken == 2
natNumberToken == 3

\* The bound on the operators of an expression.
MaxOps == 3

\* The operators, and the numbers of an expression from left to right.
Operators == {"+", "-", "*", "/"}
Digits == <<"1", "2", "3", "4", "5", "6", "7", "8", "9">>

\* The input "number (space operator space number)*" with the operators ops.
ExprInput(ops) ==
    [i \in 1..(4 * Len(ops) + 1) |->
        IF i % 2 = 0 THEN " "
        ELSE IF i % 4 = 1 THEN Digits[(i + 3) \div 4]
        ELSE ops[(i + 1) \div 4]]

CalcInputs == {ExprInput(ops) : ops \in SeqsUpTo(Operators, MaxOps)}

\* The token type lexState.Run gives to a rune that is not a space.
runeToken(rn) ==
    IF rn \in {"*", "/"} THEN mulOpToken
    ELSE IF rn \in {"+", "-"} THEN addOpToken
    ELSE IF \E d \in 1..Len(Digits) : Digits[d] = rn THEN natNumberToken
    ELSE noToken

\* lexState.Run on the runes in[i..] with the pending lexeme starting at
\* rune start and CurrentToken tok; out are the lexemes emitted so far.  A
\* space with no token is ignored; a space or the end of the input emits
\* the pending word without its trailing spaces, if it is not empty; a
\* rune of another token than the current one ends Run with an error.
RECURSIVE lexRun(_, _, _, _, _)
lexRun(in, i, start, tok, out) ==
    LET word == SubSeq(in, start, i - 1)
        lx == [Type |-> tok, Value |-> word, Pos |-> start - 1, Line |-> 0,
               Column |-> start - 1]
        emitted == IF word # <<>> THEN Append(out, lx) ELSE out
    IN  IF i > Len(in) THEN emitted
        ELSE IF in[i] = " " /\ tok = noToken THEN lexRun(in, i + 1, i + 1, noToken, out)
        ELSE IF in[i] = " " THEN lexRun(in, i + 1, i + 1, noToken, emitted)
        ELSE IF tok # noToken /\ (tok # natNumberToken \/ runeToken(in[i]) # natNumberToken)
        THEN out
        ELSE lexRun(in, i + 1, start, runeToken(in[i]), out)

CalcLexemes == lexRun(input, 1, 1, noToken, <<>>)

\* p.Next() of the parse function: the next lexeme, nil after the last.
CalcNextLexeme ==
    IF Len(nextLog) < Len(CalcLexemes) THEN CalcLexemes[Len(nextLog) + 1]
    ELSE NilLexeme

\* calcToken{Type: lexeme.Type, Value: lexeme.Value}
calcToken(lx) == [Type |-> lx.Type, Value |-> lx.Value]

\* token and nextToken of the parse function: the operator and the number
\* read after it.
CalcToken == calcToken(nextLog[Len(nextLog) - 1])
CalcNextToken == calcToken(nextLog[Len(nextLog)])

\* p.Pos().Value.Type; the value of the root is the zero calcToken.
PosType == IF heap[node].Value = <<>> THEN noToken ELSE heap[node].Value.Type

CalcFrame ==
    UNCHANGED <<cfgVars, envVars, dpc, driverCancelled, retNode, retErr, posVars,
                lexVars, stVars, chanVars, parseFn, plexeme, lastPeek, epc, call,
                obsVars>>

\* NewParser and p.Parse(ctx, myParseFn(p))
CalcStart ==
    /\ ppc = "idle"
    /\ heap' = <<ZeroNode>>
    /\ root' = 1
    /\ node' = 1
    /\ ppc' = "calcLoop"
    /\ UNCHANGED <<nextLog, pRoot, pErr>>
    /\ CalcFrame

\* The parse function returns (nil, err), and Parse the root and err.
CalcReturn(err) ==
    /\ ppc' = "calcDone"
    /\ pRoot' = root
    /\ pErr' = err

\* lexeme := p.Next() at the head of the loop: nil ends the function, an
\* operator is followed by a second Next, a number is pushed.
CalcNext ==
    /\ ppc = "calcLoop"
    /\ nextLog' = Append(nextLog, CalcNextLexeme)
    /\ IF CalcNextLexeme = NilLexeme
       THEN CalcReturn(Nil)
       ELSE /\ ppc' = (IF CalcNextLexeme.Type \in {mulOpToken, addOpToken} THEN "calcOp"
                       ELSE IF CalcNextLexeme.Type = natNumberToken THEN "calcNumber"
                       ELSE "calcLoop")
            /\ UNCHANGED <<pRoot, pErr>>
    /\ UNCHANGED treeVars
    /\ CalcFrame

\* case natNumberToken: p.Push(token)
CalcNumber ==
    /\ ppc = "calcNumber"
    /\ Push(calcToken(nextLog[Len(nextLog)]))
    /\ ppc' = "calcLoop"
    /\ UNCHANGED <<nextLog, pRoot, pErr>>
    /\ CalcFrame

\* nextLexeme := p.Next() after an operator: it has to be a number.
CalcOperand ==
    /\ ppc = "calcOp"
    /\ nextLog' = Append(nextLog, CalcNextLexeme)
    /\ IF CalcNextLexeme = NilLexeme
       THEN CalcReturn("missing token")
       ELSE IF CalcNextLexeme.Type # natNumberToken
       THEN CalcReturn("unexpected token")
       ELSE ppc' = "calcPlace" /\ UNCHANGED <<pRoot, pErr>>
    /\ UNCHANGED treeVars
    /\ CalcFrame

\* switch p.Pos().Value.Type and p.Push(token): a mulOp under an addOp
\* adopts its sibling, every other operator is rotated over the cursor
\* node; an operator with no number, mulOp or addOp at the cursor is an
\* error.
CalcPlace ==
    /\ ppc = "calcPlace"
    /\ IF PosType \in {natNumberToken, mulOpToken, addOpToken}
       THEN /\ Push(CalcToken)
            /\ ppc' = (IF CalcToken.Type = mulOpToken /\ PosType = addOpToken
                       THEN "calcAdopt" ELSE "calcRotate")
            /\ UNCHANGED <<pRoot, pErr>>
       ELSE /\ CalcReturn("unexpected token")
            /\ UNCHANGED treeVars
    /\ UNCHANGED nextLog
    /\ CalcFrame

\* p.RotateLeft()
CalcRotate ==
    /\ ppc = "calcRotate"
    /\ SetTree(RotateLeftPromote(TreeState))
    /\ ppc' = "calcNode"
    /\ UNCHANGED <<nextLog, pRoot, pErr>>
    /\ CalcFrame

\* p.AdoptSibling()
CalcAdopt ==
    /\ ppc = "calcAdopt"
    /\ SetTree(AdoptSibling(TreeState))
    /\ ppc' = "calcNode"
    /\ UNCHANGED <<nextLog, pRoot, pErr>>
    /\ CalcFrame

\* p.Node(nextToken)
CalcNode ==
    /\ ppc = "calcNode"
    /\ Node(CalcNextToken)
    /\ ppc' = "calcLoop"
    /\ UNCHANGED <<nextLog, pRoot, pErr>>
    /\ CalcFrame

CalcStep ==
    \/ CalcStart
    \/ CalcNext
    \/ CalcNumber
    \/ CalcOperand
    \/ CalcPlace
    \/ CalcRotate
    \/ CalcAdopt
    \/ CalcNode

CalcInit ==
    /\ input \in CalcInputs
    /\ initFn = "myParseFn"
    /\ InitRest

CalcSpec == CalcInit /\ [][CalcStep]_vars

(***************************************************************************)
(* Properties                                                              *)
(***************************************************************************)

\* The progress the two goroutines can make (the caller's cancellation and
\* calls from outside are not theirs).
ProgramStep == LexerStep \/ ParserStep \/ DriverStep

Returned == dpc = "returned"

\* C1: whenever LexParse has returned, whatever Parse returned, the lexing
\* task has closed the lexeme channel and the done channel and is gone.
C1_ReturnAfterLexerDone ==
    Returned => lpc = "done" /\ lexemesClosed >= 1 /\ doneClosed >= 1

\* LexParse returned after the lexing task saw the cancel() that follows
\* Parse: the task was still running when Parse returned.
C1_Witness ==
    Returned /\ sawCancel /\ ~callerCancelled /\ lpc = "done"

\* C2: once Parse has returned, LexParse has returned or the program can
\* still take a step: the cancel() releases a lexing task blocked inside
\* Emit, so LexParse is never stuck waiting for the done channel.
C2_StoppedParserStillReturns ==
    ppc = "returned" => (Returned \/ ENABLED ProgramStep)

\* C3: if the caller cancelled the context while LexParse was running and
\* input was left, and neither a State nor a parse function returned an
\* error of its own, LexParse returns context.Canceled and a non-nil tree.
C3_CallerCancelReturnsCanceled ==
    (/\ Returned /\ cancelledEarly
     /\ lastRunErr \in {Nil, EOF, WrappedEOF}
     /\ pErr \in {Nil, Canceled})
        => (retErr = Canceled /\ retNode # NilNode)

\* C4: LexParse returns the lexer's error when it is set and is not
\* context.Canceled, whatever Parse returned, and Parse's error otherwise;
\* unless the caller cancelled, it never returns context.Canceled.
C4_ErrorPrecedence ==
    Returned =>
        /\ retErr = (IF lexErr \notin {Nil, Canceled} THEN lexErr ELSE pErr)
        /\ ~callerCancelled => retErr # Canceled

\* The parse function returned its own error after the stream was closed
\* by a failing State, and the State's error is what LexParse returns.
C4_Witness ==
    Returned /\ lexErr = ErrState /\ pErr = ErrParse /\ retErr = ErrState

\* The values of the children of the root LexParse returned.
RootChildrenValues ==
    [i \in 1..Len(heap[retNode].Children) |-> heap[heap[retNode].Children[i]].Value]

\* The values of the lexemes handed to the Parser.
DeliveredValues == [i \in 1..Len(delivered) |-> delivered[i].Value]

\* The error a State reported to the task, nil for none or end of input.
StateError == IF lastRunErr \in {Nil, EOF, WrappedEOF} THEN Nil ELSE lastRunErr

\* C5 (as claimed): with parseWord and no cancellation LexParse returns a
\* nil error.
C5_WordParseReturnsNil ==
    (Returned /\ initFn = "parseWord" /\ ~callerCancelled) => retErr = Nil

\* C5 (amended): with parseWord and no cancellation LexParse terminates,
\* the root's children are the emitted lexemes in emission order, and the
\* error is nil unless a State returned an error other than end of input,
\* which is then the error returned.
C5_WordParseTerminates ==
    /\ [](Returned /\ initFn = "parseWord" /\ ~callerCancelled
            => /\ retErr = StateError
               /\ retNode # NilNode
               /\ RootChildrenValues = DeliveredValues)
    /\ (initFn = "parseWord" => <>(Returned \/ callerCancelled))

\* LexParse returned a nil error and a root with two children for two
\* different lexemes.
C5_Witness ==
    /\ Returned /\ initFn = "parseWord" /\ ~callerCancelled
    /\ retErr = Nil
    /\ Len(delivered) = 2
    /\ delivered[1].Value # delivered[2].Value

IsLexeme(lx) == lx # NilLexeme

\* C6: the non-nil results of Next are the lexemes handed over, in order
\* and once each (the last one may still wait in p.lexeme); a nil result
\* is returned only after the channel is closed and is followed by nil
\* results only; what Peek returned is what the next Next returns, it
\* stays in p.lexeme until then, and it is nil after a nil result.
C6_NextPeekSequence ==
    /\ SelectSeq(nextLog, IsLexeme)
         = SubSeq(delivered, 1, Len(delivered) - (IF plexeme # NilLexeme THEN 1 ELSE 0))
    /\ plexeme # NilLexeme => plexeme = delivered[Len(delivered)]
    /\ \A i \in 1..Len(nextLog) :
          nextLog[i] = NilLexeme =>
              /\ lexemesClosed > 0
              /\ \A j \in i..Len(nextLog) : nextLog[j] = NilLexeme
    /\ lastPeek.at >= 0 =>
          /\ Len(nextLog) > lastPeek.at => nextLog[lastPeek.at + 1] = lastPeek.v
          /\ Len(nextLog) = lastPeek.at => plexeme = lastPeek.v
          /\ (\E i \in 1..lastPeek.at : nextLog[i] = NilLexeme) => lastPeek.v = NilLexeme

\* Next returned a lexeme, then nil; a Peek then returned nil and so did
\* the Next after it.
C6_Witness ==
    /\ Len(nextLog) = 3
    /\ nextLog[1] # NilLexeme /\ nextLog[2] = NilLexeme /\ nextLog[3] = NilLexeme
    /\ lastPeek.at = 2 /\ lastPeek.v = NilLexeme

\* C7: the task closes the lexeme channel and the done channel at most
\* once, has closed each exactly once when it is gone, and no lexeme is
\* handed over once the lexeme channel is closed.
C7_ClosedOnce ==
    /\ [](/\ lexemesClosed <= 1
          /\ doneClosed <= 1
          /\ doneClosed = 1 => lexemesClosed = 1
          /\ lpc = "done" => (lexemesClosed = 1 /\ doneClosed = 1))
    /\ [][lexemesClosed > 0 => delivered' = delivered]_vars

\* The task has ended on the cancellation path.
C7_Witness ==
    lpc = "done" /\ sawCancel /\ lexemesClosed = 1 /\ doneClosed = 1

\* C8: when the task is gone Err() is ctx.Err() if it saw the cancellation,
\* nil if the last State returned no error or an end-of-input error
\* (wrapped or not), and the State's error otherwise.
C8_TerminalError ==
    lpc = "done" =>
        lexErr = (IF sawCancel THEN Canceled
                  ELSE IF lastRunErr \in {Nil, EOF, WrappedEOF} THEN Nil
                  ELSE lastRunErr)

\* A State returned an error wrapping io.EOF and Err() is nil.
C8_Witness ==
    lpc = "done" /\ lastRunErr = WrappedEOF /\ lexErr = Nil

\* C9: Emit called while the lexer is not running returns: it neither
\* panics nor blocks.
C9_EmitNotRunningReturns ==
    epc \in {"idle", "returned"}

\* The line and the column of position p of the input, counted from the
\* input alone.
RefLine(in, p) == Cardinality({i \in 1..p : in[i] = "\n"})
RefColumn(in, p) ==
    LET nls == {i \in 1..p : in[i] = "\n"}
    IN  IF nls = {} THEN p ELSE p - (CHOOSE i \in nls : \A j \in nls : j <= i)

\* The position just after a lexeme.
EndOf(lx) == lx.Pos + Len(lx.Value)

\* C10: the first lexeme handed over starts at 0 and every other one at
\* the position the lexer had reached at the Emit before it, with the line
\* and column of that position and the runes read from there as its value;
\* once an Emit has returned, the start markers are where it left them and
\* the accumulated text is what was read since.
C10_EmitResetsStart ==
    /\ \A k \in 1..Len(delivered) :
          LET lx == delivered[k]
          IN  /\ lx.Pos = (IF k = 1 THEN 0 ELSE EndOf(delivered[k - 1]))
              /\ lx.Line = RefLine(input, lx.Pos)
              /\ lx.Column = RefColumn(input, lx.Pos)
              /\ lx.Value = SubSeq(input, lx.Pos + 1, EndOf(lx))
    /\ (Len(delivered) > 0 /\ lpc # "ignore") =>
          /\ startPos = EndOf(delivered[Len(delivered)])
          /\ startLine = RefLine(input, startPos)
          /\ startColumn = RefColumn(input, startPos)
          /\ b = SubSeq(input, startPos + 1, pos)

\* The input "\na" cut after the newline: "\n" at 0/0/0, then "a" at
\* 1/1/0, and nothing else.
C10_Witness ==
    /\ lpc = "done"
    /\ input = <<"\n", "a">>
    /\ delivered = <<[Type |-> wordType, Value |-> <<"\n">>, Pos |-> 0, Line |-> 0, Column |-> 0],
                     [Type |-> wordType, Value |-> <<"a">>, Pos |-> 1, Line |-> 1, Column |-> 0]>>

\* l.s after k calls of readrune from s.
RECURSIVE readrunes(_, _)
readrunes(s, k) == IF k = 0 THEN s ELSE readrunes(readruneS(s).s, k - 1)

\* C11: after Advance(n) or Discard(n), whatever Buffered() returned, pos
\* has grown by the count returned, and pos, line and column are what that
\* many ReadRune calls leave, which is the line and column of pos in the
\* input.
C11_AdvanceCountsLikeReadRune ==
    call.op \in {"Advance", "Discard"} =>
        LET ref == readrunes(call.pre, call.count)
        IN  /\ pos = call.pre.pos + call.count
            /\ pos = ref.pos /\ line = ref.line /\ column = ref.column
            /\ line = RefLine(input, pos)
            /\ column = RefColumn(input, pos)

\* Advance(3) from the start of "a\na": a newline in the middle of what
\* is consumed.
C11_Witness ==
    /\ call.op = "Advance" /\ call.n = 3 /\ call.count = 3
    /\ call.pre.pos = 0 /\ input = <<"a", "\n", "a">>
    /\ line = 1 /\ column = 1

C13_DiscardIsAdvanceThenIgnore ==
    call.op = "Discard" =>
        /\ \A bufs \in Chunkings :
              LET a == advance(call.pre, call.n, FALSE, bufs)
              IN  /\ LexState = ignoreS(a.s)
                  /\ call.count = a.n
                  /\ call.err = a.err
        /\ startPos = pos /\ startLine = line /\ startColumn = column
        /\ b = <<>>

\* A Discard that stopped short at the end of the input, with text
\* pending before it.
C13_Witness ==
    /\ call.op = "Discard" /\ call.err = EOF /\ call.count >= 1
    /\ call.pre.b # <<>> /\ line >= 1

\* C14: right after Ignore(), Lexeme(t) has an empty value and the
\* current pos, line and column.
C14_LexemeAfterIgnoreIsEmpty ==
    call.op = "Ignore" =>
        LexemeS(LexState, wordType)
            = [Type |-> wordType, Value |-> <<>>, Pos |-> pos, Line |-> line,
               Column |-> column]

\* An Ignore after text was consumed over a newline.
C14_Witness ==
    /\ call.op = "Ignore" /\ Len(call.pre.b) >= 2 /\ line >= 1 /\ column >= 1

\* C15 (as claimed): each start marker is at most the current one.
C15_StartAtMostCurrent ==
    startPos <= pos /\ startLine <= line /\ startColumn <= column

\* C15 (amended): the start of the pending lexeme is never after the
\* current position: startPos <= pos, startLine <= line, and
\* startColumn <= column while both are on the same line.
C15_StartNotAfterCurrent ==
    /\ startPos <= pos
    /\ startLine <= line
    /\ startLine = line => startColumn <= column

\* The lexeme started at column 1 or later and a newline was read since.
C15_Witness ==
    startLine < line /\ startColumn > column /\ startPos < pos

StartsAt(q, tok) == HasPrefix(SubSeq(input, q + 1, Len(input)), tok)

\* The positions from p on at which one of the tokens starts.
TokenStarts(p, tokens) ==
    {q \in p..Len(input) : \E j \in 1..Len(tokens) : StartsAt(q, tokens[j])}

\* C17: Find stops at the first position from which the input starts with
\* one of the tokens and returns the first such token of the list; the
\* runes before it are appended to the text, the start markers stay; with
\* no such position it consumes the input and returns "" and io.EOF.
C17_FindEarliestFirstListed ==
    call.op = "Find" =>
        LET hits == TokenStarts(call.pre.pos, call.tokens)
        IN  /\ IF hits = {}
               THEN pos = Len(input) /\ call.tok = <<>> /\ call.err = EOF
               ELSE LET q == CHOOSE h \in hits : \A k \in hits : h <= k
                        js == {j \in 1..Len(call.tokens) : StartsAt(q, call.tokens[j])}
                        j == CHOOSE i \in js : \A k \in js : i <= k
                    IN  pos = q /\ call.tok = call.tokens[j] /\ call.err = Nil
            /\ b = call.pre.b \o SubSeq(input, call.pre.pos + 1, pos)
            /\ startPos = call.pre.startPos
            /\ startLine = call.pre.startLine
            /\ startColumn = call.pre.startColumn
            /\ line = RefLine(input, pos)
            /\ column = RefColumn(input, pos)

\* Find(["a", "a\n"]) on "\na\n": both tokens start at 1, "a" is returned.
C17_Witness ==
    /\ call.op = "Find" /\ call.tokens = <<(<<"a">>), (<<"a", "\n">>)>>
    /\ input = <<"\n", "a", "\n">> /\ call.pre.pos = 0
    /\ pos = 1 /\ call.tok = <<"a">> /\ b = <<"\n">>

\* C18: SkipTo returns the token and error Find returns from the same
\* state and leaves the same pos, line and column; the start markers are
\* at the current position and the text is empty.
C18_SkipToFindsLikeFind ==
    call.op = "SkipTo" =>
        LET f == Find(call.pre, call.tokens)
        IN  /\ call.tok = f.tok
            /\ call.err = f.err
            /\ pos = f.s.pos /\ line = f.s.line /\ column = f.s.column
            /\ startPos = pos /\ startLine = line /\ startColumn = column
            /\ b = <<>>

\* C19: every l.s.Unlock() releases a lock the same operation took: no
\* operation unlocks a mutex that is free, and a goroutine between its
\* Lock and its Unlock holds the mutex.
C19_UnlocksMatchLocks ==
    /\ xpc # "fatal"
    /\ opc # "fatal"
    /\ opc = "locked" => mu = "obs"

\* C20: Node(v) and Push(v) return a new node with value v and no
\* children, whose parent is the cursor node and which is the last child
\* of the cursor node; every other node, the order of the children and the
\* root are as before; the cursor stays for Node and is the new node for
\* Push.
C20_NodeAppendsPushDescends ==
    call.op \in {"Node", "Push"} =>
        LET pre == call.pre
            id == Len(pre.heap) + 1
            c == pre.node
        IN  /\ Len(heap) = id
            /\ call.ret = id
            /\ heap[id].Value = call.v
            /\ heap[id].Parent = c
            /\ heap[id].Children = <<>>
            /\ heap[c] = [pre.heap[c] EXCEPT !.Children = Append(@, id),
                                             !.ChildrenNil = FALSE]
            /\ \A k \in 1..Len(pre.heap) : k # c => heap[k] = pre.heap[k]
            /\ root = pre.root
            /\ node = (IF call.op = "Push" THEN id ELSE pre.node)

\* A Push under a cursor that is not the root and already has a child.
C20_Witness ==
    /\ call.op = "Push"
    /\ call.pre.node # root
    /\ Len(heap[call.pre.node].Children) = 2
    /\ node = Len(heap)

\* C21: in a run of parseWord, which calls p.Next and then p.Node, the
\* k-th node created carries the Pos, Line and Column of the k-th lexeme
\* that Next returned.
C21_NodeHasLexemePosition ==
    initFn = "parseWord" =>
        \A k \in 2..Len(heap) :
            (k - 1) \in 1..Len(nextLog) =>
                /\ heap[k].Pos = nextLog[k - 1].Pos
                /\ heap[k].Line = nextLog[k - 1].Line
                /\ heap[k].Column = nextLog[k - 1].Column

\* C22: Climb returns the cursor node of before the call and moves the
\* cursor to that node's parent; at the root it returns the root and the
\* cursor stays on the root; it does not fail, the nodes and the root are
\* as before and the cursor is not nil.
C22_ClimbToParent ==
    call.op = "Climb" =>
        LET pre == call.pre
            par == pre.heap[pre.node].Parent
        IN  /\ call.ret = pre.node
            /\ par # NilNode => node = par
            /\ par = NilNode => node = pre.node
            /\ pre.node = pre.root => node = pre.root /\ call.ret = pre.root
            /\ heap = pre.heap
            /\ root = pre.root
            /\ node # NilNode
            /\ tpc = "idle"

\* A Climb from a grandchild of the root to a child of the root.
C22_Witness ==
    /\ call.op = "Climb"
    /\ call.pre.node # root
    /\ node # call.pre.node
    /\ node # root
    /\ heap[call.pre.node].Parent = node

\* The children of node n of h, the nodes of h reachable from the nodes
\* of S through at most k child links, and the nodes of the tree under r.
Kids(h, n) == {h[n].Children[i] : i \in 1..Len(h[n].Children)} \ {NilNode}

RECURSIVE Reach(_, _, _)
Reach(h, S, k) ==
    IF k = 0 THEN S
    ELSE Reach(h, S \cup UNION {Kids(h, n) : n \in S}, k - 1)

Reachable(h, r) == Reach(h, {r}, Len(h))

\* C23: after Replace(v) a new node with value v is in the slot of its
\* parent that the cursor node had, or is the root with a nil parent when
\* the cursor node was the root; the other slots of the parent are as
\* before; the new node has the old node's children in the same order,
\* each with the new node as its parent, and a nil list when the old list
\* was nil; the cursor is the new node; the old node's value is returned;
\* and as many nodes as before are reachable from the root.
C23_ReplaceTakesPlace ==
    call.op = "Replace" =>
        LET pre == call.pre
            c == pre.node
            id == Len(pre.heap) + 1
            par == pre.heap[c].Parent
        IN  /\ Len(heap) = id
            /\ heap[id].Value = call.v
            /\ heap[id].Parent = par
            /\ par # NilNode =>
                  /\ IndexOf(heap[par].Children, id) = IndexOf(pre.heap[par].Children, c)
                  /\ IndexOf(heap[par].Children, id) # 0
                  /\ heap[par].Children = Swapped(pre.heap[par].Children, c, id)
            /\ c = pre.root => root = id /\ par = NilNode
            /\ c # pre.root => root = pre.root
            /\ heap[id].Children = pre.heap[c].Children
            /\ heap[id].ChildrenNil = pre.heap[c].ChildrenNil
            /\ \A k \in Kids(heap, id) : heap[k].Parent = id
            /\ node = id
            /\ call.val = pre.heap[c].Value
            /\ Cardinality(Reachable(heap, root))
                 = Cardinality(Reachable(pre.heap, pre.root))
            /\ c \notin Reachable(heap, root)

\* A Replace of a second child that has a child of its own, by a node with
\* another value.
C23_Witness ==
    /\ call.op = "Replace"
    /\ call.pre.node # call.pre.root
    /\ heap[node].Parent # NilNode
    /\ IndexOf(heap[heap[node].Parent].Children, node) = 2
    /\ Len(heap[node].Children) = 1
    /\ call.val # call.v

\* The tree after a binary rotation at the cursor P of the tree pre, where
\* Q is P's child in slot from and B is Q's child in slot to: Q has P's
\* former parent and P's slot in it, P is Q's child in slot to, B is P's
\* child in slot from, the other slots of P and Q and every other node are
\* as before, Q is the cursor, and the root when P was.
Rotated(pre, from, to) ==
    LET P == pre.node
        Q == pre.heap[P].Children[from]
        B == pre.heap[Q].Children[to]
        G == pre.heap[P].Parent
    IN  /\ tpc = "idle"
        /\ Len(heap) = Len(pre.heap)
        /\ heap[Q] = [pre.heap[Q] EXCEPT !.Parent = G, !.Children[to] = P]
        /\ heap[P] = [pre.heap[P] EXCEPT !.Parent = Q, !.Children[from] = B]
        /\ heap[B] = [pre.heap[B] EXCEPT !.Parent = P]
        /\ G # NilNode =>
              /\ heap[G] = [pre.heap[G] EXCEPT
                               !.Children = Swapped(pre.heap[G].Children, P, Q)]
              /\ IndexOf(heap[G].Children, Q) = IndexOf(pre.heap[G].Children, P)
        /\ \A k \in 1..Len(heap) : k \notin {P, Q, B, G} => heap[k] = pre.heap[k]
        /\ root = (IF P = pre.root THEN Q ELSE pre.root)
        /\ P = pre.root => heap[Q].Parent = NilNode
        /\ node = Q
        /\ call.ret = Q

\* C24: with the cursor on a node P whose right child Q has a left child
\* B, RotateLeft puts Q in P's place, makes P the left child of Q and B
\* the right child of P, leaves the rest of the tree in place, moves the
\* cursor to Q and returns Q; RotateRight does the same with left and
\* right exchanged.
C24_RotationsRotate ==
    /\ (/\ call.op = "RotateLeft"
        /\ Right(call.pre.heap, call.pre.node) # NilNode
        /\ Left(call.pre.heap, Right(call.pre.heap, call.pre.node)) # NilNode)
       => Rotated(call.pre, 2, 1)
    /\ (/\ call.op = "RotateRight"
        /\ Left(call.pre.heap, call.pre.node) # NilNode
        /\ Right(call.pre.heap, Left(call.pre.heap, call.pre.node)) # NilNode)
       => Rotated(call.pre, 1, 2)

\* A RotateRight at a node P that is not the root, with Q = Left(P) and
\* B = Right(Q): afterwards Q is under the root with P as its right child
\* and B as P's left child.
C24_Witness ==
    /\ call.op = "RotateRight"
    /\ call.pre.node # call.pre.root
    /\ node # call.pre.node
    /\ heap[node].Parent = root
    /\ Right(heap, node) = call.pre.node
    /\ Left(heap, call.pre.node) # NilNode
    /\ Left(heap, call.pre.node) = Right(call.pre.heap, node)

\* Node p of h has no child in slot i.
NoChildAt(h, p, i) == Len(h[p].Children) < i \/ h[p].Children[i] = NilNode

\* C25: RotateLeft on a cursor node without a right child and RotateRight
\* on a cursor node without a left child return the cursor node and leave
\* the nodes, the root and the cursor as they were.
C25_RotationWithoutChildIsNoOp ==
    (\/ call.op = "RotateLeft" /\ NoChildAt(call.pre.heap, call.pre.node, 2)
     \/ call.op = "RotateRight" /\ NoChildAt(call.pre.heap, call.pre.node, 1))
    => /\ call.ret = call.pre.node
       /\ heap = call.pre.heap
       /\ root = call.pre.root
       /\ node = call.pre.node
       /\ tpc = "idle"

\* A RotateLeft on a node under the root that has a left child only.
C25_Witness ==
    /\ call.op = "RotateLeft"
    /\ node # root
    /\ Len(heap[node].Children) = 1
    /\ call.ret = node
    /\ heap = call.pre.heap

\* C26: a RotateRight that immediately follows a RotateLeft made on a
\* cursor node P with children A and Q, where Q has children B and C,
\* gives back the tree of before the RotateLeft: the same nodes with the
\* same values, children and parents, the same root, and the cursor on P.
C26_RotateLeftThenRightRestores ==
    (/\ call.op = "RotateRight"
     /\ call.before.op = "RotateLeft"
     /\ ~NoChildAt(call.before.pre.heap, call.before.pre.node, 2)
     /\ ~NoChildAt(call.before.pre.heap,
                   call.before.pre.heap[call.before.pre.node].Children[2], 1))
    => /\ heap = call.before.pre.heap
       /\ root = call.before.pre.root
       /\ node = call.before.pre.node
       /\ call.ret = call.before.pre.node
       /\ tpc = "idle"

\* RotateLeft and then RotateRight at the root P of the chain P(A, Q(B, C)).
C26_Witness ==
    /\ call.op = "RotateRight"
    /\ call.before.op = "RotateLeft"
    /\ call.before.pre.node = call.before.pre.root
    /\ call.pre.node # node
    /\ node = root
    /\ Len(heap[node].Children) = 2
    /\ Len(heap[heap[node].Children[1]].Children) = 0
    /\ Len(heap[heap[node].Children[2]].Children) = 2
    /\ Len(heap) = 5
    /\ Cardinality(Reachable(heap, root)) = 5

\* C27: after the parent-promotion RotateLeft with the cursor on a node n
\* whose parent is op, n has op's former parent and op's slot in it, or is
\* the root when op was; op is the last child of n, after the children n
\* had; op has its other children in their order; every other node is as
\* before; the cursor is n; n and a nil error are returned; and the number
\* of nodes reachable from the root is as before.
C27_PromoteOverParent ==
    (call.op = "RotateLeftPromote" /\ call.pre.heap[call.pre.node].Parent # NilNode) =>
        LET pre == call.pre
            n == pre.node
            op == pre.heap[n].Parent
            gp == pre.heap[op].Parent
        IN  /\ Len(heap) = Len(pre.heap)
            /\ heap[n] = [pre.heap[n] EXCEPT
                             !.Parent = gp,
                             !.Children = Append(pre.heap[n].Children, op),
                             !.ChildrenNil = FALSE]
            /\ heap[op] = [pre.heap[op] EXCEPT
                              !.Parent = n,
                              !.Children = Without(pre.heap[op].Children, n)]
            /\ Len(heap[op].Children) = Len(pre.heap[op].Children) - 1
            /\ gp # NilNode =>
                  /\ heap[gp] = [pre.heap[gp] EXCEPT
                                    !.Children = Swapped(pre.heap[gp].Children, op, n)]
                  /\ IndexOf(heap[gp].Children, n) = IndexOf(pre.heap[gp].Children, op)
            /\ \A k \in 1..Len(heap) : k \notin {n, op, gp} => heap[k] = pre.heap[k]
            /\ root = (IF op = pre.root THEN n ELSE pre.root)
            /\ op = pre.root => heap[n].Parent = NilNode
            /\ node = n
            /\ call.ret = n
            /\ call.err = Nil
            /\ Cardinality(Reachable(heap, root))
                 = Cardinality(Reachable(pre.heap, pre.root))

\* A promotion of a node that has a child over a parent that is a child of
\* the root and has another child.
C27_Witness ==
    /\ call.op = "RotateLeftPromote"
    /\ call.err = Nil
    /\ heap[node].Parent = root
    /\ IndexOf(heap[root].Children, node) = 1
    /\ Len(heap[node].Children) = 2
    /\ heap[node].Children[2] = call.pre.heap[node].Parent
    /\ Len(heap[heap[node].Children[2]].Children) = 1

\* C28: after AdoptSibling with the cursor on a node n that has a sibling
\* s immediately before it, s has left the parent's children and is the
\* last child of n with n as its parent; the parent's other children and
\* the children n had keep their order; every other node, the root and the
\* cursor are as before; n and a nil error are returned.
C28_AdoptPrecedingSibling ==
    (/\ call.op = "AdoptSibling"
     /\ call.pre.heap[call.pre.node].Parent # NilNode
     /\ IndexOf(call.pre.heap[call.pre.heap[call.pre.node].Parent].Children,
                call.pre.node) > 1) =>
        LET pre == call.pre
            n == pre.node
            op == pre.heap[n].Parent
            cs == pre.heap[op].Children
            i == IndexOf(cs, n)
            s == cs[i - 1]
        IN  /\ Len(heap) = Len(pre.heap)
            /\ heap[op] = [pre.heap[op] EXCEPT
                              !.Children = SubSeq(cs, 1, i - 2) \o SubSeq(cs, i, Len(cs))]
            /\ heap[n] = [pre.heap[n] EXCEPT
                             !.Children = Append(pre.heap[n].Children, s),
                             !.ChildrenNil = FALSE]
            /\ heap[s] = [pre.heap[s] EXCEPT !.Parent = n]
            /\ \A k \in 1..Len(heap) : k \notin {n, op, s} => heap[k] = pre.heap[k]
            /\ root = pre.root
            /\ node = n
            /\ call.ret = n
            /\ call.err = Nil

\* An AdoptSibling on a third child that has a child of its own: the
\* second child joins it and the first child stays.
C28_Witness ==
    /\ call.op = "AdoptSibling"
    /\ call.err = Nil
    /\ Len(call.pre.heap[heap[node].Parent].Children) = 3
    /\ Len(heap[heap[node].Parent].Children) = 2
    /\ heap[heap[node].Parent].Children[2] = node
    /\ Len(heap[node].Children) = 2
    /\ heap[node].Children[2] = call.pre.heap[heap[node].Parent].Children[2]

\* C29: the parent-promotion RotateLeft on a node without a parent, and
\* AdoptSibling on a node without a parent or on a first child, return a
\* nil node and ErrMissingRequiredNode, and the nodes, the root and the
\* cursor are as before.
C29_MissingNodeChangesNothing ==
    (\/ /\ call.op \in {"RotateLeftPromote", "AdoptSibling"}
        /\ call.pre.heap[call.pre.node].Parent = NilNode
     \/ /\ call.op = "AdoptSibling"
        /\ call.pre.heap[call.pre.node].Parent # NilNode
        /\ call.pre.heap[call.pre.heap[call.pre.node].Parent].Children[1]
             = call.pre.node)
    => /\ call.ret = NilNode
       /\ call.err = ErrMissingRequiredNode
       /\ heap = call.pre.heap
       /\ root = call.pre.root
       /\ node = call.pre.node

\* An AdoptSibling on the first child of a node under the root.
C29_Witness ==
    /\ call.op = "AdoptSibling"
    /\ call.err = ErrMissingRequiredNode
    /\ node # root
    /\ heap[node].Parent # root
    /\ heap[heap[node].Parent].Children[1] = node

\* The slots of the nodes reachable from the root: pairs of a node and an
\* index in its children.
Slots == {<<n, i>> \in Reachable(heap, root) \X (1..Len(heap)) : i <= Len(heap[n].Children)}

\* What is reachable from the root is a tree: every slot holds a node whose
\* parent is the node with the slot, the root has no parent, no node is in
\* two slots, and no node is below itself.
IsTree ==
    /\ \A s \in Slots :
          /\ heap[s[1]].Children[s[2]] # NilNode
          /\ heap[heap[s[1]].Children[s[2]]].Parent = s[1]
    /\ heap[root].Parent = NilNode
    /\ \A s, u \in Slots :
          heap[s[1]].Children[s[2]] = heap[u[1]].Children[u[2]] => s = u
    /\ \A n \in Reachable(heap, root) : n \notin Reach(heap, Kids(heap, n), Len(heap))

\* A rotation or an adoption leaves the number of nodes reachable from the
\* root as it was.
SameCount ==
    call.op \in {"RotateLeft", "RotateRight", "RotateLeftPromote", "AdoptSibling"} =>
        Cardinality(Reachable(heap, root))
          = Cardinality(Reachable(call.pre.heap, call.pre.root))

\* C30: after any sequence of Node, Push, Climb, Replace, the binary
\* rotations, the parent-promotion RotateLeft and AdoptSibling on a new
\* Parser, what is reachable from the root is a tree, and the rotations
\* and the adoption have not changed the number of nodes.
C30_AlwaysATree ==
    heap # <<>> => IsTree /\ SameCount

\* C31: after any sequence of Node, Push, Climb, Pop, Replace, the
\* rotations and AdoptSibling on a new Parser, the cursor is not nil and
\* is reachable from the root, and the root is the one reachable node
\* without a parent.
C31_CursorInTree ==
    heap # <<>> =>
        /\ node # NilNode
        /\ node \in Reachable(heap, root)
        /\ \A n \in Reachable(heap, root) : heap[n].Parent = NilNode <=> n = root

\* Parse has returned and LexParse has not gone on.
ParseJustReturned == ppc = "returned" /\ dpc = "cancel"

\* C32: Parse goes on with the function the parse function returned while
\* that is not nil and the error is nil; a nil function or an io.EOF ends
\* Parse with a nil error, another error ends it with that error, no
\* parse function is called afterwards, and the node returned is the
\* root, from which every node attached is reachable.
C32_ParseLoopAndResult ==
    /\ (ppc = "loop" /\ call.op = "parseFn") =>
          /\ call.err = Nil
          /\ parseFn = call.fn
    /\ (ppc = "fn" /\ dpc = "parse") => parseFn # Nil
    /\ ParseJustReturned =>
          /\ pRoot = root
          /\ Reachable(heap, pRoot) = 1..Len(heap)
          /\ ~ENABLED ParserStep
          /\ call.op = "parseFn" =>
                /\ (call.fn = Nil /\ call.err = Nil) => pErr = Nil
                /\ call.err \in {EOF, WrappedEOF} => pErr = Nil
                /\ call.err \notin {Nil, EOF, WrappedEOF} => pErr = call.err
                /\ (call.fn # Nil /\ call.err = Nil) => pErr = Canceled

\* Parse has returned a nil error and the root after a parse function that
\* had read two lexemes returned io.EOF.
C32_Witness ==
    /\ ParseJustReturned
    /\ call.op = "parseFn"
    /\ call.err = EOF
    /\ pErr = Nil
    /\ pRoot = root
    /\ Len(nextLog) = 2

\* C33 as stated: whenever Parse returns while the context is cancelled,
\* it returns the context's error.
C33_CancelledParseReturnsCtxErr ==
    [][(ppc # "returned" /\ ppc' = "returned" /\ ctxDone) => pErr' = Canceled]_vars

\* C33: Parse calls a parse function only while the context is not
\* cancelled; when it is about to call one and the context is cancelled,
\* it returns the root as it is and the context's error and leaves the
\* tree alone.
C33_CancelStopsParse ==
    [][/\ (ppc = "loop" /\ ppc' = "fn") => ~ctxDone
       /\ (ppc = "loop" /\ ppc' # ppc /\ parseFn # Nil /\ ctxDone) =>
             /\ ppc' = "returned"
             /\ pErr' = Canceled
             /\ pRoot' = root
             /\ UNCHANGED treeVars]_vars

\* Parse has returned context.Canceled and a root with a node under it:
\* the caller cancelled after parseWord had attached the node.
C33_Witness ==
    /\ ParseJustReturned
    /\ callerCancelled
    /\ pErr = Canceled
    /\ parseFn = "parseWord"
    /\ pRoot = root
    /\ Len(heap[root].Children) = 1

\* The tree under node n of h: its value and the trees of its children.
RECURSIVE TreeOf(_, _)
TreeOf(h, n) ==
    [v |-> h[n].Value,
     kids |-> [i \in 1..Len(h[n].Children) |-> TreeOf(h, h[n].Children[i])]]

\* The largest element of a set of numbers.
Last(S) == CHOOSE k \in S : \A j \in S : j <= k

\* The tree of the tokens ts of an expression in which * and / bind
\* tighter than + and -, and operators of equal precedence associate to
\* the left: the last + or - is the root when there is one, else the
\* last * or /, and a number is a leaf.
RECURSIVE ExprTree(_)
ExprTree(ts) ==
    LET adds == {k \in 1..Len(ts) : ts[k].Type = addOpToken}
        muls == {k \in 1..Len(ts) : ts[k].Type = mulOpToken}
        split(k) == [v |-> ts[k],
                     kids |-> <<ExprTree(SubSeq(ts, 1, k - 1)),
                                ExprTree(SubSeq(ts, k + 1, Len(ts)))>>]
    IN  IF adds # {} THEN split(Last(adds))
        ELSE IF muls # {} THEN split(Last(muls))
        ELSE [v |-> ts[1], kids |-> <<>>]

\* The tokens of the input.
CalcTokens == [i \in 1..Len(CalcLexemes) |-> calcToken(CalcLexemes[i])]

\* C34: for every expression number (operator number)*, the parse function
\* of calc returns without an error a root whose one child is the tree of
\* the expression: every operator has its two operands as children, * and
\* / bind tighter than + and -, and operators of equal precedence
\* associate to the left.
C34_CalcBuildsExpressionTree ==
    ppc = "calcDone" =>
        /\ pErr = Nil
        /\ Len(heap[pRoot].Children) = 1
        /\ TreeOf(heap, heap[pRoot].Children[1]) = ExprTree(CalcTokens)

\* The lexemes the Parser has received: those Next returned, and the one
\* Peek holds.
Received ==
    SelectSeq(nextLog, LAMBDA lx : lx # NilLexeme)
      \o (IF plexeme # NilLexeme THEN <<plexeme>> ELSE <<>>)

\* C35: a lexeme is waiting exactly while the task is inside the send of
\* Emit, so at most one is; the task leaves the send only by the Parser
\* receiving that lexeme; the lexemes handed over are those the Parser
\* has received, in order; and while a lexeme is waiting the position and
\* the pending text of the lexer do not change.
C35_UnbufferedHandOff ==
    /\ [](/\ (sending # NilLexeme) <=> (lpc = "emit")
          /\ delivered = Received)
    /\ [][/\ (lpc = "emit" /\ lpc' # "emit") =>
                /\ delivered' = Append(delivered, sending)
                /\ Received' = Append(Received, sending)
          /\ (sending # NilLexeme) => UNCHANGED posVars]_vars

\* The second lexeme is waiting in Emit, the Parser has taken the first
\* with Next, and input is left.
C35_Witness ==
    /\ lpc = "emit"
    /\ sending # NilLexeme
    /\ Len(delivered) = 1
    /\ nextLog = delivered
    /\ pos < Len(input)

\* Next has returned nil: the Parser has seen the lexeme channel closed.
SawStreamClosed == \E i \in 1..Len(nextLog) : nextLog[i] = NilLexeme

\* C36: l.s.err is written only while it is nil and the lexeme channel is
\* open, and is still open after the write; l.done is closed only after
\* l.lexemes; so once Next has returned nil or l.done is closed the value
\* of Err() no longer changes, and the error LexParse returns is computed
\* from that final value.
C36_ErrorBeforeCloseBeforeDone ==
    /\ [](/\ doneClosed > 0 => lexemesClosed > 0
          /\ SawStreamClosed => lexemesClosed > 0
          /\ dpc = "returned" => retErr = LexParseErr(lexErr, pErr))
    /\ [][/\ lexErr' # lexErr =>
                lexErr = Nil /\ lexemesClosed = 0 /\ lexemesClosed' = 0
          /\ doneClosed' # doneClosed => lexemesClosed > 0
          /\ (SawStreamClosed \/ lexemesClosed > 0 \/ doneClosed > 0) =>
                lexErr' = lexErr]_vars

\* A State failed, Next returned nil after the close, and LexParse has
\* returned the State's error.
C36_Witness ==
    /\ SawStreamClosed
    /\ doneClosed = 1
    /\ lexErr = ErrState
    /\ dpc = "returned"
    /\ retErr = ErrState

\* C37: a call of Lex on a Lexer whose task has finished does not fault;
\* when it has returned the task has not been started again and the lexeme
\* channel is closed; and l.lexemes and l.done are never closed twice.
C37_LexAgainReturnsClosedStream ==
    /\ xpc \in {"idle", "returned"}
    /\ xpc = "returned" => lpc = "done" /\ lexemesClosed > 0
    /\ lexemesClosed <= 1
    /\ doneClosed <= 1

\* The rotation of the last call promoted the child in slot from of the
\* cursor node, which was there and had no child in slot to.
PromotedWithoutInner(op, from, to) ==
    /\ call.op = op
    /\ ~NoChildAt(call.pre.heap, call.pre.node, from)
    /\ NoChildAt(call.pre.heap, call.pre.heap[call.pre.node].Children[from], to)

\* C38: a RotateLeft whose right child has no left child, and a
\* RotateRight whose left child has no right child, complete without a
\* fault; the slot of the former cursor node that would have received the
\* grandchild is empty, and what is reachable from the root is a tree.
C38_RotationWithoutGrandchild ==
    /\ PromotedWithoutInner("RotateLeft", 2, 1) =>
          /\ tpc = "idle"
          /\ NoChildAt(heap, call.pre.node, 2)
          /\ IsTree
    /\ PromotedWithoutInner("RotateRight", 1, 2) =>
          /\ tpc = "idle"
          /\ NoChildAt(heap, call.pre.node, 1)
          /\ IsTree

\* LexParse has returned for a State that fails on its first Run without
\* reading, as errStateFn does, and a parse function that returns
\* (nil, nil) on its first call without a Peek or a Next, and the caller
\* has not cancelled: what the State and the parse function did is what
\* these two do.
FixedScenario ==
    /\ dpc = "returned"
    /\ ~callerCancelled
    /\ initFn = "anyFn"
    /\ nextLog = <<>> /\ lastPeek = NoPeek /\ pErr = Nil
    /\ pos = 0 /\ delivered = <<>>
    /\ \/ runs = 0
       \/ runs = 1 /\ lastRunErr = ErrState

\* C39: for that State and that parse function LexParse returns the empty
\* root and the State's error in every interleaving, as it does when the
\* lexing task has finished before Parse returns.
C39_SameResultInEveryInterleaving ==
    FixedScenario =>
        /\ retErr = ErrState
        /\ retNode = 1
        /\ heap = <<ZeroNode>>

\* The last call was Advance, Discard or SkipTo and the reader's Discard
\* reported an error in it.
DiscardFailed ==
    /\ call.op \in {"Advance", "Discard", "SkipTo"}
    /\ call.dErr # Nil

\* C40: when the reader's Discard reports an error, Advance and Discard
\* return the number of runes consumed up to then, and Advance, Discard
\* and SkipTo return an error that is not nil and that wraps the reader's
\* error.
C40_DiscardErrorIsWrapped ==
    DiscardFailed =>
        /\ call.err # Nil
        /\ Is(call.err, call.dErr)
        /\ call.op \in {"Advance", "Discard"} => call.count = pos - call.pre.pos

====
